---- MODULE Spec2Model ----
(***************************************************************************)
(* Branch-mode state machine of the Obsidian Git Collaboration plugin.     *)
(*                                                                         *)
(* Every async method is cut at its git subprocess awaits: an action runs  *)
(* the code from one resumption to the next `await execAsync(...)`.  The   *)
(* command is logged when it is launched (result "pending") and takes      *)
(* effect when execAsync settles.  `await saveSettings()` writes the whole *)
(* settings record and is folded into the step that calls it.              *)
(***************************************************************************)
EXTENDS Integers, Sequences, FiniteSets, TLC

VARIABLES
    pluginLoaded,              \* the plugin is enabled and onload has run
    settings,                  \* plugin.settings (in memory)
    saved,                     \* the record last written by saveData
    actualBranch,              \* branch checked out in the working tree
    gitBranches,               \* local branches of the repository
    dirty,                     \* git status --porcelain is non-empty
    isGitOperationInProgress,  \* plugin.isGitOperationInProgress
    selectionModalOpen,        \* a BranchSelectionModal is open
    saveModal,                 \* the SaveChangesModal and its captured branch
    prMerged,                  \* the remote has merged the pull request
    postMergeTimer,            \* the setTimeout of the merge button is pending
    prModal,                   \* the CreatePRModal and what its onOpen captured
    prManager,                 \* the PullRequestManagerModal and its list
    remotePRs,                 \* the pull requests of the repository on GitHub
    task                       \* per event channel: the running async call

vars == <<pluginLoaded, settings, saved, actualBranch, gitBranches, dirty,
          isGitOperationInProgress, selectionModalOpen, saveModal,
          prMerged, postMergeTimer, prModal, prManager, remotePRs, task>>

Branches == {"main", "feature", "draft"}
\* the largest count `git rev-list --count HEAD..origin/<branch>` prints
MaxBehind == 2
NoBranch == "none"
\* `git branch` prints the local branches in alphabetical order
BranchOrder == <<"draft", "feature", "main">>
\* "ui": the handler the user triggered; "onOpen": BranchSelectionModal.onOpen;
\* "cmd": a command palette callback started while another handler runs;
\* "watch": the listener of the vault's create event
Procs == {"ui", "onOpen", "cmd", "timer", "watch"}

\* a URL is the sequence of its lexical pieces
Schemes == {<<>>, <<"https://">>, <<"http://">>}
Hosts == {<<"github.com">>, <<"gitlab.com">>}
Paths == {<<"/", "owner", "/", "repo">>, <<"/", "owner", "/", "notes">>}
Suffixes == {<<>>, <<".git">>}
Urls == {sc \o h \o pa \o su :
            sc \in Schemes, h \in Hosts, pa \in Paths, su \in Suffixes}
Tokens == {"t1", "t2"}
\* the largest number of entries kept in repositoryTokens
MaxTokens == 1
\* the repository the vault is connected to
RepoUrl == <<"https://", "github.com", "/", "owner", "/", "repo", ".git">>
NoTokens == [u \in {} |-> "t1"]

\* main.ts:227 url.replace(/^https?:\/\//, '')
StripScheme(u) ==
    IF Len(u) > 0 /\ u[1] \in {"https://", "http://"} THEN Tail(u) ELSE u

\* the suffix is kept
StripGit_keep(u) == u

\* main.ts:227 .replace(/\.git$/, '')
StripGit(u) ==
    IF Len(u) > 0 /\ u[Len(u)] = ".git" THEN SubSeq(u, 1, Len(u) - 1) ELSE u

\* main.ts:223-234
normalizeRepositoryUrl(u) ==
    IF \E i \in 1..Len(u) : u[i] = "github.com"
    THEN LET normalized == StripGit(StripScheme(u)) IN
         IF Len(normalized) >= 2 /\ normalized[1] = "github.com" /\ normalized[2] = "/"
         THEN <<"https://", "github.com", "/">> \o SubSeq(normalized, 3, Len(normalized))
         ELSE u
    ELSE u

\* main.ts:202-205 getRepositoryToken on the settings s
TokenFor(s, u) ==
    LET n == normalizeRepositoryUrl(u) IN
    IF n \in DOMAIN s.repositoryTokens THEN s.repositoryTokens[n] ELSE "undefined"

\* main.ts:208-209 repositoryTokens[normalizedUrl] = token
WithToken(t, u, tok) ==
    LET n == normalizeRepositoryUrl(u) IN
    [k \in DOMAIN t \cup {n} |-> IF k = n THEN tok ELSE t[k]]

\* main.ts:214-215 delete repositoryTokens[normalizedUrl]
WithoutToken(t, u) ==
    [k \in DOMAIN t \ {normalizeRepositoryUrl(u)} |-> t[k]]

DEFAULT_SETTINGS ==
    [isReadOnlyMode |-> TRUE, isRepositoryConnected |-> FALSE,
     repositoryUrl |-> <<>>,
     currentBranch |-> "main", mainBranch |-> "main",
     availableBranches |-> <<"main">>, lastWorkingBranch |-> "",
     repositoryTokens |-> NoTokens]

\* settings after a successful initializeRepository on a fresh plugin
ConnectedSettings ==
    [DEFAULT_SETTINGS EXCEPT !.isRepositoryConnected = TRUE,
                             !.repositoryUrl = RepoUrl,
                             !.repositoryTokens = WithToken(NoTokens, RepoUrl, "t1"),
                             !.currentBranch = "main",
                             !.mainBranch = "main",
                             !.availableBranches = <<"main">>]

\* no CreatePRModal is open
NoPRModal == [open |-> FALSE, existingToken |-> "undefined", branchName |-> NoBranch]

PRNumbers == {"#1", "#2"}
PROrder == <<"#1", "#2">>
Mergeable == {"true", "false", "null"}

\* the repository has no pull request
NoPRs == [n \in PRNumbers |-> [state |-> "none", mergeable |-> "null"]]

\* no PullRequestManagerModal is open
NoPRManager ==
    [open |-> FALSE, pullRequests |-> [n \in {} |-> "null"],
     mergeFor |-> "none", closeFor |-> "none"]

IdleTask ==
    [op |-> "none", arg |-> NoBranch, pc |-> "idle", stack |-> <<>>,
     notices |-> {}, cmds |-> <<>>, ret |-> "none",
     pre |-> ConnectedSettings, preSaved |-> ConnectedSettings,
     preActual |-> "main", preDirty |-> FALSE, branch |-> NoBranch,
     behind |-> 0, url |-> <<>>, token |-> "", modal |-> "none",
     mergeable |-> "null"]

World ==
    [loaded |-> pluginLoaded, settings |-> settings, saved |-> saved, actual |-> actualBranch,
     branches |-> gitBranches, dirty |-> dirty,
     busy |-> isGitOperationInProgress, selOpen |-> selectionModalOpen,
     saveModal |-> saveModal, merged |-> prMerged, timer |-> postMergeTimer,
     prModal |-> prModal, prManager |-> prManager, remotePRs |-> remotePRs,
     task |-> task]

Commit(W) ==
    /\ pluginLoaded' = W.loaded
    /\ settings' = W.settings
    /\ saved' = W.saved
    /\ actualBranch' = W.actual
    /\ gitBranches' = W.branches
    /\ dirty' = W.dirty
    /\ isGitOperationInProgress' = W.busy
    /\ selectionModalOpen' = W.selOpen
    /\ saveModal' = W.saveModal
    /\ prMerged' = W.merged
    /\ postMergeTimer' = W.timer
    /\ prModal' = W.prModal
    /\ prManager' = W.prManager
    /\ remotePRs' = W.remotePRs
    /\ task' = W.task

----------------------------------------------------------------------------
(* helpers of the translation *)

Includes(seq, x) == \E i \in 1..Len(seq) : seq[i] = x

\* new Notice(...)
Note(W, p, n) == [W EXCEPT !.task[p].notices = @ \cup {n}]

\* execAsync(cmd) is launched and the caller suspends at label l
Await(W, p, cmd, arg, l) ==
    [W EXCEPT !.task[p].cmds = Append(@, <<cmd, arg, "pending">>),
              !.task[p].pc = l]

\* execAsync settled: record the result of the pending command
Settle(W, p, ok) ==
    LET n == Len(W.task[p].cmds) IN
    [W EXCEPT !.task[p].cmds[n][3] = IF ok THEN "ok" ELSE "fail"]

PendingArg(W, p) == W.task[p].cmds[Len(W.task[p].cmds)][2]

\* saveSettings(): saveData(this.settings)
saveSettings(W) == [W EXCEPT !.saved = W.settings]

\* the flag is left set
Release_none(W) == W

\* git.ts:158-161, 886-889 the finally block of a guarded sequence
Release(W) == [W EXCEPT !.busy = FALSE]

Call(W, p, l) == [W EXCEPT !.task[p].stack = <<l>> \o @]

\* a handler is invoked on channel p
Start(W, p, op, arg) ==
    [W EXCEPT !.task[p] =
        [op |-> op, arg |-> arg, pc |-> "running", stack |-> <<>>,
         notices |-> {}, cmds |-> <<>>, ret |-> "none",
         pre |-> W.settings, preSaved |-> W.saved, preActual |-> W.actual,
         preDirty |-> W.dirty, branch |-> NoBranch, behind |-> 0,
         url |-> <<>>, token |-> "", modal |-> "none", mergeable |-> "null"]]

\* the output of `git branch`, master filtered out, duplicates removed
BranchList(bs) == SelectSeq(BranchOrder, LAMBDA b : b \in bs /\ b # "master")

----------------------------------------------------------------------------
(* validateAndEnforceBranchRules: the decisions, as pure functions *)

\* git.ts:31 the stored main branch is corrected to 'main'
CorrectsMainBranch(s, actual) == s.mainBranch # "main" /\ actual = "main"

CorrectMainBranch(s, actual) ==
    IF CorrectsMainBranch(s, actual) THEN [s EXCEPT !.mainBranch = "main"] ELSE s

\* rule 2 is missing: edit mode on the main branch is only synchronised
ValidatorRule_noRule2(s, actual) ==
    IF s.isReadOnlyMode /\ actual # s.mainBranch THEN "rule1" ELSE "sync"

\* git.ts:38,48,58 which rule applies to the (corrected) settings
ValidatorRule(s, actual) ==
    IF s.isReadOnlyMode /\ actual # s.mainBranch THEN "rule1"
    ELSE IF ~s.isReadOnlyMode /\ actual = s.mainBranch THEN "rule2"
    ELSE "sync"

RECURSIVE Return(_, _, _)
RECURSIVE validateEnter(_, _)
RECURSIVE forceEnter(_, _)
RECURSIVE editEnter(_, _)
RECURSIVE switchEnter(_, _)

\* git.ts:15-27 entry, up to `git branch --show-current`
validateEnter(W, p) ==
    IF ~W.settings.isRepositoryConnected THEN Return(W, p, "true")
    ELSE Await(W, p, "branch --show-current", NoBranch, "val_read")

\* git.ts:28-70 after `git branch --show-current`
validateRead(W, p, ok) ==
    IF ~ok THEN Return(W, p, "false")
    ELSE
    LET actual == W.actual
        s1 == CorrectMainBranch(W.settings, actual)
        W1 == IF CorrectsMainBranch(W.settings, actual)
              THEN saveSettings([W EXCEPT !.settings = s1]) ELSE W
        rule == ValidatorRule(s1, actual)
    IN  CASE rule = "rule1" ->
                Await(W1, p, "checkout", s1.mainBranch, "val_checkout")
          [] rule = "rule2" ->
                Return(Note(saveSettings(
                    [W1 EXCEPT !.settings.isReadOnlyMode = TRUE]),
                    p, "cannotEditOnMain"), p, "false")
          [] OTHER ->
                Return(IF actual # s1.currentBranch
                       THEN saveSettings([W1 EXCEPT !.settings.currentBranch = actual])
                       ELSE W1, p, "true")

\* git.ts:40-45 after the enforcing `git checkout <main>`
validateCheckout(W, p, ok) ==
    IF ~ok THEN Return(W, p, "false")
    ELSE Return(Note(saveSettings(
            [W EXCEPT !.actual = PendingArg(W, p),
                      !.settings.currentBranch = W.settings.mainBranch]),
            p, "switchedToMain"), p, "true")

----------------------------------------------------------------------------
(* ReadOnlyOperations.enableEditMode *)

\* modals.ts:19-24 BranchSelectionModal.open(): onOpen runs detached and
\* starts refreshAvailableBranches, up to `git branch`
openSelection(W) ==
    IF ~W.settings.isRepositoryConnected THEN [W EXCEPT !.selOpen = TRUE]
    ELSE Await(Start([W EXCEPT !.selOpen = TRUE], "onOpen",
                     "refreshAvailableBranches", NoBranch),
               "onOpen", "branch", NoBranch, "rab_branch")

\* the main-branch rejection compares against the stored current branch
IsMainTarget_current(s, b) == s.currentBranch = s.mainBranch /\ b = s.mainBranch

\* readonly.ts:74 the target branch is the main branch
IsMainTarget(s, b) == b = s.mainBranch

\* the branch that was left is recorded as the last working branch
EditModeSettings_lastLeft(s, b) ==
    IF s.isRepositoryConnected /\ b # NoBranch
    THEN [s EXCEPT !.isReadOnlyMode = FALSE, !.currentBranch = b,
                   !.lastWorkingBranch = s.currentBranch]
    ELSE [s EXCEPT !.isReadOnlyMode = FALSE]

\* the last working branch is not recorded
EditModeSettings_noLast(s, b) ==
    IF s.isRepositoryConnected /\ b # NoBranch
    THEN [s EXCEPT !.isReadOnlyMode = FALSE, !.currentBranch = b]
    ELSE [s EXCEPT !.isReadOnlyMode = FALSE]

\* readonly.ts:92-103 settings after a successful checkout
EditModeSettings(s, b) ==
    IF s.isRepositoryConnected /\ b # NoBranch
    THEN [s EXCEPT !.isReadOnlyMode = FALSE, !.currentBranch = b,
                   !.lastWorkingBranch = b]
    ELSE [s EXCEPT !.isReadOnlyMode = FALSE]

\* readonly.ts:92-109
editApply(W, p) ==
    LET b == W.task[p].arg
        W1 == [W EXCEPT !.settings = EditModeSettings(W.settings, b)]
        W2 == Note(W1, p, IF W.settings.isRepositoryConnected /\ b # NoBranch
                          THEN "editModeOnBranch" ELSE "editMode")
    IN  validateEnter(Call(saveSettings(W2), p, "eem_val"), p)

\* readonly.ts:61-85 entry, up to `git checkout <target>`
editEnter(W, p) ==
    LET b == W.task[p].arg
        s == W.settings
    IN  IF s.isRepositoryConnected /\ b = NoBranch
        THEN Return(openSelection(W), p, "none")
        ELSE IF s.isRepositoryConnected
        THEN LET target == IF b # NoBranch THEN b ELSE s.currentBranch IN
             IF IsMainTarget(s, target)
             THEN Return(Note(W, p, "cannotEnableEditOnMain"), p, "none")
             ELSE Await(W, p, "checkout", target, "eem_checkout")
        ELSE editApply(W, p)

\* the failed checkout is reported but edit mode is enabled all the same
editCheckout_noAbort(W, p, ok) ==
    IF ~ok THEN editApply(Note(W, p, "checkoutFailed"), p)
    ELSE editApply([W EXCEPT !.actual = PendingArg(W, p)], p)

\* readonly.ts:86-109 after `git checkout <target>`
editCheckout(W, p, ok) ==
    IF ~ok THEN Return(Note(W, p, "checkoutFailed"), p, "none")
    ELSE editApply([W EXCEPT !.actual = PendingArg(W, p)], p)

----------------------------------------------------------------------------
(* ReadOnlyOperations.forceEnableReadOnlyMode *)

\* readonly.ts:159 the setting written when the checkout of main failed
RevertedMode(prior) == FALSE

\* readonly.ts:131-145 entry, up to `git checkout <main>`
forceEnter(W, p) ==
    LET W1 == [W EXCEPT !.settings.isReadOnlyMode = TRUE] IN
    IF W.settings.isRepositoryConnected
    THEN Await(W1, p, "checkout", W.settings.mainBranch, "fe_checkout")
    ELSE validateEnter(Call(saveSettings(Note(W1, p, "readOnlyVault")), p, "fe_val"), p)

\* readonly.ts:147-172 after `git checkout <main>`
forceCheckout(W, p, ok) ==
    IF ~ok
    THEN Return(Note([W EXCEPT !.settings.isReadOnlyMode =
                          RevertedMode(W.task[p].pre.isReadOnlyMode)],
                     p, "cannotEnableReadOnly"), p, "none")
    ELSE validateEnter(Call(saveSettings(Note(
            [W EXCEPT !.actual = PendingArg(W, p),
                      !.settings.currentBranch = W.settings.mainBranch],
            p, "readOnlyOnMain")), p, "fe_val"), p)

----------------------------------------------------------------------------
(* GitOperations.switchToBranch *)

\* the read-only guard is missing
ReadOnlyDenies_never(s, b) == FALSE

\* git.ts:444 read-only mode permits only the main branch
ReadOnlyDenies(s, b) == s.isReadOnlyMode /\ b # s.mainBranch

\* the edit-mode guard is missing
EditDenies_never(s, b) == FALSE

\* git.ts:450 edit mode forbids the main branch
EditDenies(s, b) == ~s.isReadOnlyMode /\ b = s.mainBranch

\* git.ts:437-467 entry, up to `git checkout "<branch>"`
switchEnter(W, p) ==
    LET b == W.task[p].arg
        s == W.settings
    IN  IF ~s.isRepositoryConnected THEN Return(Note(W, p, "noRepository"), p, "false")
        ELSE IF ReadOnlyDenies(s, b) THEN Return(Note(W, p, "switchDeniedReadOnly"), p, "false")
        ELSE IF EditDenies(s, b) THEN Return(Note(W, p, "switchDeniedEdit"), p, "false")
        ELSE Await(W, p, "checkout", b, "sw_checkout")

\* git.ts:467-483 after `git checkout "<branch>"`
switchCheckout(W, p, ok) ==
    IF ~ok THEN Return(Note(W, p, "switchFailed"), p, "false")
    ELSE validateEnter(Call(saveSettings(
            [W EXCEPT !.actual = PendingArg(W, p),
                      !.settings.currentBranch = PendingArg(W, p)]), p, "sw_val"), p)

----------------------------------------------------------------------------
(* GitOperations.createNewBranch *)

\* git.ts:401-420 entry, up to `git checkout -b "<branch>"`
createEnter(W, p) ==
    IF ~W.settings.isRepositoryConnected
    THEN Return(Note(W, p, "noRepository"), p, "false")
    ELSE Await(W, p, "checkout -b", W.task[p].arg, "cnb_checkout")

\* git.ts:422-426 availableBranches after the branch was created
WithBranch(avail, b) == IF Includes(avail, b) THEN avail ELSE Append(avail, b)

\* the branch is listed although it could not be created
createFailed_listed(W, p) ==
    Return(Note(saveSettings([W EXCEPT !.settings.availableBranches =
                                 Append(@, PendingArg(W, p))]),
                p, "createFailed"), p, "false")

\* git.ts:430-434 the catch block of createNewBranch
createFailed(W, p) == Return(Note(W, p, "createFailed"), p, "false")

\* git.ts:420-434 after `git checkout -b "<branch>"`
createCheckout(W, p, ok) ==
    IF ~ok THEN createFailed(W, p)
    ELSE LET b == PendingArg(W, p)
             W1 == [W EXCEPT !.actual = b, !.branches = @ \cup {b}]
             W2 == IF Includes(W.settings.availableBranches, b) THEN W1
                   ELSE saveSettings([W1 EXCEPT !.settings.availableBranches =
                                         WithBranch(@, b)])
         IN  Return(Note(W2, p, "branchCreated"), p, "true")

----------------------------------------------------------------------------
(* GitOperations.pullLatestChanges *)

\* git.ts:368-383 entry, up to `git checkout <main>`
pullEnter(W, p) ==
    Await([W EXCEPT !.busy = TRUE], p, "checkout", W.settings.mainBranch, "pull_checkout")

\* git.ts:383-398 after `git checkout <main>`
pullCheckout(W, p, ok) ==
    IF ~ok THEN Return(Note([W EXCEPT !.busy = FALSE], p, "pullFailed"), p, "false")
    ELSE Await([W EXCEPT !.actual = PendingArg(W, p)], p,
               "pull origin", W.settings.mainBranch, "pull_pull")

\* the failed pull is not reported
pullPull_silent(W, p, ok) ==
    IF ~ok THEN Return([W EXCEPT !.busy = FALSE], p, "false")
    ELSE Return([Note(W, p, "pulled") EXCEPT !.busy = FALSE], p, "true")

\* git.ts:386-398 after `git pull origin <main>`
pullPull(W, p, ok) ==
    IF ~ok THEN Return(Note([W EXCEPT !.busy = FALSE], p, "pullFailed"), p, "false")
    ELSE Return([Note(W, p, "pulled") EXCEPT !.busy = FALSE], p, "true")

----------------------------------------------------------------------------
(* GitOperations.cloneRepository *)

\* the branch a fresh clone has checked out: the default branch of the remote
RemoteDefaults == {"main", "master"}

\* git.ts:719-743 entry, up to readdir of the vault
cloneEnter(W, p) ==
    Await(Note([W EXCEPT !.busy = TRUE, !.task[p].url = RepoUrl,
                         !.task[p].token = "t1"], p, "cloning"), p,
          "readdir", NoBranch, "clone_readdir")

\* git.ts:882-889 catch and finally of cloneRepository
cloneFail(W, p) == Return(Release(Note(W, p, "cloneFailed")), p, "false")

\* git.ts:743-793 after readdir: the vault files and .git are removed, then
\* `git clone <url> <tempDir>` is launched
cloneReaddir(W, p, ok) ==
    IF ~ok THEN Return(Release(Note(W, p, "cannotReadVault")), p, "false")
    ELSE Await([W EXCEPT !.branches = {}, !.actual = NoBranch, !.dirty = FALSE],
               p, "clone", NoBranch, "clone_clone")

\* git.ts:793-820 after `git clone`, which checked out d: the files are moved
\* into the vault, .gitignore is written, git config is set
cloneClone(W, p, ok, d) ==
    IF ~ok THEN cloneFail(W, p)
    ELSE Await([W EXCEPT !.branches = {d}, !.actual = d], p,
               "move files", NoBranch, "clone_move")

\* git.ts:796-824 after the moves and the configuration
cloneMove(W, p, ok) ==
    IF ~ok THEN cloneFail(W, p)
    ELSE Await(W, p, "branch --show-current", NoBranch, "clone_show")

\* git.ts:840-842 `git branch -a` is launched with the branch settings b
cloneBranches(W, p, b) ==
    Await([W EXCEPT !.settings.currentBranch = b, !.settings.mainBranch = "main"],
          p, "branch -a", NoBranch, "clone_brancha")

\* git.ts:824-838 after `git branch --show-current`
cloneShow(W, p, ok) ==
    IF ~ok THEN cloneBranches(W, p, "main")
    ELSE IF W.actual = "master"
    THEN Await(W, p, "checkout -b", "main", "clone_checkoutb")
    ELSE cloneBranches(W, p, W.actual)

\* git.ts:828-838 after `git checkout -b main`
cloneCheckoutB(W, p, ok) ==
    IF ~ok THEN cloneBranches(W, p, "main")
    ELSE Await([W EXCEPT !.actual = "main", !.branches = @ \cup {"main"}], p,
               "branch -d", "master", "clone_delmaster")

\* git.ts:829-838 after `git branch -d master`
cloneDelMaster(W, p, ok) ==
    IF ~ok THEN cloneBranches(W, p, "main")
    ELSE cloneBranches(Note([W EXCEPT !.branches = @ \ {"master"}], p, "migrated"),
                       p, "main")

\* git.ts:842-865 after `git branch -a`: the settings are stored, then the
\* vault listing is refreshed
cloneBranchA(W, p, ok) ==
    LET W1 == [W EXCEPT !.settings.availableBranches =
                    IF ok THEN BranchList(W.branches) ELSE <<"main">>]
        W2 == saveSettings([W1 EXCEPT    \* main.ts:207-211 setRepositoryToken
                  !.settings.repositoryUrl = W.task[p].url,
                  !.settings.repositoryTokens =
                      WithToken(@, W.task[p].url, W.task[p].token)])
        W3 == saveSettings([W2 EXCEPT !.settings.isRepositoryConnected = TRUE])
    IN  Await(W3, p, "list", NoBranch, "clone_list")

\* git.ts:865-889 after adapter.list('')
cloneList(W, p, ok) ==
    IF ~ok THEN cloneFail(W, p)
    ELSE Return(Release(Note(W, p, "cloned")), p, "true")

----------------------------------------------------------------------------
(* GitOperations.mergePullRequest and the merge button *)

\* git.ts:290-312 entry, up to the PUT .../pulls/<n>/merge request
mergeEnter(W, p) ==
    IF TokenFor(W.settings, W.settings.repositoryUrl) = "undefined"
    THEN Return(Note(W, p, "tokenRequired"), p, "false")
    ELSE Await(W, p, "PUT merge", W.task[p].arg, "merge_put")

\* git.ts:258-273 fetchPullRequests, started by onOpen of the manager
fetchEnter(W) ==
    LET W1 == Start(W, "onOpen", "fetchPullRequests", NoBranch) IN
    IF TokenFor(W.settings, W.settings.repositoryUrl) = "undefined"
    THEN Return([W1 EXCEPT !.prManager.pullRequests = [n \in {} |-> "null"]],
                "onOpen", "none")
    ELSE Await(W1, "onOpen", "GET pulls", NoBranch, "fpr_get")

\* git.ts:275-287, modals.ts:410-422 after the response: the list is stored
\* and rendered
fetchResponse(W, p, ok) ==
    LET open == {n \in PRNumbers : W.remotePRs[n].state = "open"} IN
    Return([W EXCEPT !.prManager.pullRequests =
                IF ok THEN [n \in open |-> W.remotePRs[n].mergeable]
                ELSE [n \in {} |-> "null"]], p, "none")

\* modals.ts:585-586, 638-639 the confirmation closes and the manager
\* reloads its list
reloadManager(W) ==
    LET W1 == [W EXCEPT !.prManager.mergeFor = "none", !.prManager.closeFor = "none"] IN
    IF W.prManager.open THEN fetchEnter(W1) ELSE W1

\* git.ts:314-326, modals.ts:583-599 after the response; on success the
\* post-merge callback is scheduled
mergeResponse(W, p, ok) ==
    IF ok
    THEN LET n == W.task[p].arg
             W1 == [Note(W, p, "merged") EXCEPT !.merged = TRUE, !.timer = TRUE]
             W2 == IF n \in PRNumbers THEN [W1 EXCEPT !.remotePRs[n].state = "merged"]
                   ELSE W1
         IN  Return(reloadManager(W2), p, "true")
    ELSE Return(Note(W, p, "mergeFailed"), p, "false")

\* git.ts:329-350 closePullRequest, up to the PATCH .../pulls/<n> request
closeEnter(W, p) ==
    IF TokenFor(W.settings, W.settings.repositoryUrl) = "undefined"
    THEN Return(Note(W, p, "tokenRequired"), p, "false")
    ELSE Await(W, p, "PATCH pull", W.task[p].arg, "close_patch")

\* git.ts:352-365, modals.ts:636-640 after the response
closeResponse(W, p, ok) ==
    IF ok
    THEN Return(reloadManager([Note(W, p, "prClosed") EXCEPT
                                  !.remotePRs[W.task[p].arg].state = "closed"]),
                p, "true")
    ELSE Return(Note(W, p, "closeFailed"), p, "false")

\* the Merge button is rendered only for a pull request reported mergeable
MergeOffered_onlyReady(m) == m = "true"

\* modals.ts:521-526 the Merge button is rendered
MergeOffered(m) == m # "false"

\* modals.ts:528-531 the Close button is rendered
CloseOffered(m) == TRUE

\* modals.ts:610-614
getPRStatusText(m) ==
    CASE m = "true" -> "Ready" [] m = "false" -> "Conflicts" [] OTHER -> "Checking"

\* modals.ts:512-531 the operations renderSinglePR offers for a pull request
Buttons(m) ==
    {"view"} \cup (IF MergeOffered(m) THEN {"merge"} ELSE {})
             \cup (IF CloseOffered(m) THEN {"close"} ELSE {})

----------------------------------------------------------------------------
(* GitOperations.checkForUncommittedChanges, commitChanges,                *)
(* refreshAvailableBranches                                                *)

\* git.ts:73-85 entry, up to `git status --porcelain`
statusEnter(W, p) ==
    IF ~W.settings.isRepositoryConnected THEN Return(W, p, "false")
    ELSE Await(W, p, "status --porcelain", NoBranch, "cfu_status")

\* the status query always reports a clean tree
statusRead_clean(W, p, ok) == Return(W, p, "false")

\* git.ts:86-90 after `git status --porcelain`
statusRead(W, p, ok) ==
    Return(W, p, IF ok /\ W.dirty THEN "true" ELSE "false")

\* git.ts:93-107 entry, up to `git add .`
commitEnter(W, p) ==
    IF ~W.settings.isRepositoryConnected THEN Return(W, p, "false")
    ELSE Await(W, p, "add .", NoBranch, "commit_add")

\* git.ts:107-110 after `git add .`
commitAdd(W, p, ok) ==
    IF ~ok THEN Return(W, p, "false")
    ELSE Await(W, p, "commit -m", W.actual, "commit_commit")

\* git.ts:110-116 after `git commit -m`
commitCommit(W, p, ok) ==
    IF ~ok THEN Return(W, p, "false")
    ELSE Return([W EXCEPT !.dirty = FALSE], p, "true")

\* git.ts:976-1000 after `git branch`
refreshRead(W, p, ok) ==
    IF ~ok THEN Return(W, p, "none")
    ELSE Return(saveSettings([W EXCEPT !.settings.availableBranches =
                                 BranchList(W.branches)]), p, "none")

----------------------------------------------------------------------------
(* GitOperations.isBranchOnRemote, pushChanges *)

\* git.ts:178-192 entry, up to `git ls-remote --exit-code origin <branch>`
remoteEnter(W, p, b) ==
    IF ~W.settings.isRepositoryConnected THEN Return(W, p, "false")
    ELSE Await(W, p, "ls-remote", b, "ibr_lsremote")

\* git.ts:192-197 after `git ls-remote`
remoteRead(W, p, ok) == Return(W, p, IF ok THEN "true" ELSE "false")

\* the pull is issued only when more than one commit is missing
IsBehind_moreThanOne(n) == n > 1

\* git.ts:147 parseInt(behindCount.trim()) > 0
IsBehind(n) == n > 0

\* git.ts:119-135 entry, up to `git fetch origin`
pushEnter(W, p) ==
    IF ~W.settings.isRepositoryConnected THEN Return(W, p, "false")
    ELSE Await([W EXCEPT !.task[p].branch = W.settings.currentBranch],
               p, "fetch origin", NoBranch, "push_fetch")

\* git.ts:136-145 after `git fetch origin`, whose failure is only logged
pushFetch(W, p, ok) ==
    Await(W, p, "rev-list --count", W.task[p].branch, "push_revlist")

\* git.ts:169 `git push origin <branch>` is launched
pushLaunch(W, p) == Await(W, p, "push origin", W.task[p].branch, "push_push")

\* git.ts:142-169 after `git rev-list --count HEAD..origin/<branch>` = n
pushRevList(W, p, ok, n) ==
    LET W1 == IF ok THEN [W EXCEPT !.task[p].behind = n] ELSE W IN
    IF ok /\ IsBehind(n)
    THEN Await([W1 EXCEPT !.busy = TRUE],
               p, "pull origin", W.task[p].branch, "push_pull")
    ELSE pushLaunch(W1, p)

\* git.ts:152-169 after `git pull origin <branch>`
pushPull(W, p, ok) ==
    IF ~ok THEN Return(Release(Note(W, p, "cannotPushBehind")), p, "false")
    ELSE pushLaunch(Release(Note(W, p, "pulledBeforePush")), p)

\* git.ts:169-175 after `git push origin <branch>`
pushPush(W, p, ok) == Return(W, p, IF ok THEN "true" ELSE "false")

----------------------------------------------------------------------------
(* GitOperations.checkRemoteUpdates *)

\* git.ts:592-595 none of the URLs contains 'private' or 'github.com:'
isPublicRepository(u) == u # <<>>

\* git.ts:562-567 entry: the callback is scheduled when a token is stored or
\* the repository is public
cruEnter(W, p) ==
    IF \/ TokenFor(W.settings, W.settings.repositoryUrl) # "undefined"
       \/ isPublicRepository(W.settings.repositoryUrl)
    THEN [W EXCEPT !.task[p].pc = "cru_timer"]
    ELSE Return(W, p, "none")

\* the callback holds the operation flag while it fetches
cruTimeout_guarded(W, p) ==
    Await([W EXCEPT !.busy = TRUE], p, "fetch origin", NoBranch, "cru_fetch")

\* git.ts:567-569 the callback of the setTimeout, up to `git fetch origin`
cruTimeout(W, p) == Await(W, p, "fetch origin", NoBranch, "cru_fetch")

\* git.ts:569-575 after `git fetch origin`
cruFetch(W, p, ok) ==
    IF ~ok THEN Return(W, p, "none")
    ELSE Await(W, p, "rev-list --count", W.settings.currentBranch, "cru_revlist")

\* git.ts:575-582 after `git rev-list --count HEAD..origin/<branch>` = n
cruRevList(W, p, ok, n) ==
    IF ok /\ n > 0 THEN Return(Note(W, p, "updatesAvailable"), p, "none")
    ELSE Return(W, p, "none")

----------------------------------------------------------------------------
(* CreatePRModal and GitOperations.createPullRequest *)

\* git.ts:207 the repository URL matches /github\.com[\/:]([^\/]+)\/([^\/\.]+)/
IsGithubRepo(u) ==
    \E i \in 1..(Len(u) - 3) :
        u[i] = "github.com" /\ u[i + 1] = "/" /\ u[i + 3] = "/"

\* the lowest pull request number not yet used on the remote
FreePR(prs) ==
    LET free == SelectSeq(PROrder, LAMBDA n : prs[n].state = "none") IN free[1]

\* git.ts:200-228 entry, up to the POST .../pulls request
createPREnter(W, p, token) ==
    IF W.settings.repositoryUrl = <<>> THEN Return(W, p, "false")
    ELSE IF ~IsGithubRepo(W.settings.repositoryUrl)
    THEN Return(Note(W, p, "invalidUrl"), p, "false")
    ELSE IF token \in {"", "undefined"}
              /\ TokenFor(W.settings, W.settings.repositoryUrl) = "undefined"
    THEN Return(Note(W, p, "tokenRequired"), p, "false")
    ELSE Await(W, p, "POST pulls", W.task[p].arg, "cpr_post")

\* git.ts:238-251 after the response
createPRResponse(W, p, ok) ==
    IF ok
    THEN Return(Note([W EXCEPT !.remotePRs[FreePR(W.remotePRs)].state = "open"],
                     p, "prCreated"), p, "true")
    ELSE Return(Note(W, p, "prFailed"), p, "false")

\* the token typed into the dialog is not stored
KeepTyped_never(existing, final) == FALSE

\* modals.ts:935-938 a token typed into the dialog is stored before the request
KeepTyped(existing, final) == existing = "undefined" /\ final # ""

\* modals.ts:922-940 the Create Pull Request button, with the typed token
createPRClicked(W, p, typed) ==
    LET existing == W.prModal.existingToken
        final == IF existing = "undefined" THEN typed ELSE existing
    IN  IF final = "" THEN Return(Note(W, p, "provideToken"), p, "none")
        ELSE LET W1 == IF KeepTyped(existing, final)
                       THEN saveSettings([W EXCEPT !.settings.repositoryTokens =
                                WithToken(@, W.settings.repositoryUrl, final)])
                       ELSE W
             IN  createPREnter(Call([W1 EXCEPT !.task[p].token = final], p, "cpr_done"),
                               p, final)

----------------------------------------------------------------------------
(* the code after an awaited call returns *)

\* the pull request is offered for every pushed working branch
OffersPR_always(isNewBranch, b, main) == b # main

\* modals.ts:817 the condition under which the CreatePRModal is scheduled
OffersPR(isNewBranch, b, main) == isNewBranch /\ b # main

\* the read-only transition is skipped when a pull request is offered
pushReturned_skip(W, p, val, offer) ==
    IF val = "true"
    THEN IF offer
         THEN Return(Note(Note(W, p, "pushed"), p, "createPRModal"), p, "none")
         ELSE forceEnter(Call(Note(W, p, "pushed"), p, "draft_fe"), p)
    ELSE Return(Note(W, p, "pushFailed"), p, "none")

\* modals.ts:809-825 SaveChangesModal.saveAndPush after pushChanges returned
pushReturned(W, p, val, offer) ==
    IF val = "true"
    THEN LET W2 == Note(W, p, "pushed")
             W3 == IF offer THEN Note(W2, p, "createPRModal") ELSE W2
         IN  forceEnter(Call(W3, p, "draft_fe"), p)
    ELSE Return(Note(W, p, "pushFailed"), p, "none")

\* modals.ts:771-778 SaveChangesModal.saveAsDraft after commitChanges returned
draftCommitted_always(W, p, val) ==
    forceEnter(Call(Note(W, p, "draftSaved"), p, "draft_fe"), p)

draftCommitted(W, p, val) ==
    IF val = "true"
    THEN forceEnter(Call(Note(W, p, "draftSaved"), p, "draft_fe"), p)
    ELSE Return(Note(W, p, "draftFailed"), p, "none")

Return(W, p, val) ==
    LET st == W.task[p].stack IN
    IF st = <<>>
    THEN IF p = "onOpen" THEN [W EXCEPT !.task[p] = IdleTask]
         ELSE [W EXCEPT !.task[p].pc = "idle", !.task[p].ret = val]
    ELSE
    LET top == Head(st)
        W1 == [W EXCEPT !.task[p].stack = Tail(st)]
    IN  CASE top = "eem_val" -> Return(W1, p, "none")       \* readonly.ts:109-110
          [] top = "fe_val" -> Return(W1, p, "none")        \* readonly.ts:172-177
          [] top = "sw_val" -> Return(Note(W1, p, "switched"), p, "true")  \* git.ts:477-478
          [] top = "erwb_cfu" ->                            \* readonly.ts:116-124
                IF val = "true"
                THEN Return(Note([W1 EXCEPT !.saveModal =
                                [open |-> TRUE, currentBranch |-> W.settings.currentBranch]],
                            p, "saveChangesModal"), p, "none")
                ELSE forceEnter(Call(W1, p, "erwb_fe"), p)
          [] top = "erwb_fe" -> Return(W1, p, "none")       \* readonly.ts:124-129
          [] top = "draft_commit" -> draftCommitted(W1, p, val)
          [] top = "draft_fe" ->                            \* modals.ts:775
                Return([W1 EXCEPT !.saveModal.open = FALSE], p, "none")
          [] top = "sap_commit" ->                          \* modals.ts:799-806
                IF val = "true"
                THEN remoteEnter(Call(W1, p, "sap_remote"), p, W.saveModal.currentBranch)
                ELSE Return(Note(W1, p, "commitFailed"), p, "none")
          [] top = "sap_remote" ->                          \* modals.ts:806-809
                pushEnter(Call(W1, p, IF val = "true" THEN "sap_push" ELSE "sap_push_new"), p)
          [] top \in {"sap_push", "sap_push_new"} ->
                pushReturned(W1, p, val, OffersPR(top = "sap_push_new", W.saveModal.currentBranch,
                                                  W.settings.mainBranch))
          [] top = "cpr_done" ->                            \* modals.ts:940-943
                Return(IF val = "true" THEN [W1 EXCEPT !.prModal.open = FALSE] ELSE W1,
                       p, val)
          [] top = "pm_erwb" ->                             \* modals.ts:591-592
                pullEnter(Call(W1, p, "pm_pull"), p)
          [] top = "pm_pull" -> Return(W1, p, "none")       \* modals.ts:592-598
          [] top = "sel_sw" -> editEnter(Call(W1, p, "sel_eem"), p)   \* modals.ts:65-66
          [] top = "sel_eem" ->                             \* modals.ts:67, 132
                Return([W1 EXCEPT !.selOpen = FALSE], p, "none")
          [] top = "new_cnb" ->                             \* modals.ts:128-130
                IF val = "true" THEN switchEnter(Call(W1, p, "sel_sw"), p)
                ELSE Return(W1, p, "none")

----------------------------------------------------------------------------
(* the actions *)

Init ==
    /\ pluginLoaded = TRUE
    /\ settings = ConnectedSettings
    /\ saved = ConnectedSettings
    /\ actualBranch = "main"
    /\ gitBranches = {"main"}
    /\ dirty = FALSE
    /\ isGitOperationInProgress = FALSE
    /\ selectionModalOpen = FALSE
    /\ saveModal = [open |-> FALSE, currentBranch |-> "main"]
    /\ prMerged = FALSE
    /\ postMergeTimer = FALSE
    /\ prModal = NoPRModal
    /\ prManager = NoPRManager
    /\ remotePRs = NoPRs
    /\ task = [p \in Procs |-> IdleTask]

\* main.ts:34-45, 53 the plugin as constructed, before any repository exists
InitFresh ==
    /\ pluginLoaded = TRUE
    /\ settings = DEFAULT_SETTINGS
    /\ saved = DEFAULT_SETTINGS
    /\ actualBranch = NoBranch
    /\ gitBranches = {}
    /\ dirty = FALSE
    /\ isGitOperationInProgress = FALSE
    /\ selectionModalOpen = FALSE
    /\ saveModal = [open |-> FALSE, currentBranch |-> "main"]
    /\ prMerged = FALSE
    /\ postMergeTimer = FALSE
    /\ prModal = NoPRModal
    /\ prManager = NoPRManager
    /\ remotePRs = NoPRs
    /\ task = [p \in Procs |-> IdleTask]

UiIdle == pluginLoaded /\ task["ui"].pc = "idle"
Idle == \A p \in Procs : task[p].pc = "idle"

\* git: checkout needs the branch to exist, checkout -b needs it not to
CanSucceed(p) ==
    LET c == task[p].cmds[Len(task[p].cmds)] IN
    CASE c[1] = "checkout" -> c[2] \in gitBranches
      [] c[1] = "checkout -b" -> gitBranches # {} /\ c[2] \notin gitBranches
      [] c[1] = "branch -d" -> c[2] \in gitBranches /\ c[2] # actualBranch
      [] c[1] \in {"readdir", "clone", "move files", "list"} -> TRUE
      [] c[1] = "POST pulls" -> \E n \in PRNumbers : remotePRs[n].state = "none"
      [] c[1] = "PUT merge" ->
            c[2] \in PRNumbers =>
                remotePRs[c[2]].state = "open" /\ remotePRs[c[2]].mergeable # "false"
      [] c[1] = "PATCH pull" -> remotePRs[c[2]].state = "open"
      [] c[1] = "GET pulls" -> TRUE
      [] OTHER -> gitBranches # {}

\* execAsync settles, with result ok, for the call of p suspended at label l
Settling(p, l, ok) == task[p].pc = l /\ (ok => CanSucceed(p))

\* main.ts:133-135 the plugin is disabled or the application quits
onunload ==
    /\ Idle /\ pluginLoaded
    /\ Commit([World EXCEPT !.loaded = FALSE, !.selOpen = FALSE,
                             !.saveModal.open = FALSE])

\* git checkout <b> typed in a terminal while the plugin is not running
externalCheckout ==
    \E b \in gitBranches :
        /\ ~pluginLoaded
        /\ b # actualBranch
        /\ Commit([World EXCEPT !.actual = b])

\* main.ts:137-142 loadSettings: DEFAULT_SETTINGS overlaid with the saved record
LoadedSettings(data) ==
    [k \in DOMAIN DEFAULT_SETTINGS \cup DOMAIN data |->
        IF k \in DOMAIN data THEN data[k] ELSE DEFAULT_SETTINGS[k]]

\* main.ts:53-131 the plugin is constructed and onload runs
onload ==
    /\ ~pluginLoaded
    /\ Commit(Return(Start([World EXCEPT !.loaded = TRUE, !.busy = FALSE,
                                         !.settings = LoadedSettings(saved)],
                            "ui", "onload", NoBranch), "ui", "none"))

\* enableEditMode(branchName)
enableEditMode ==
    \E b \in Branches :
        /\ UiIdle
        /\ Commit(editEnter(Start(World, "ui", "enableEditMode", b), "ui"))

\* main.ts:72-75 the ribbon icon in read-only mode: enableEditMode()
ribbonEnableEditMode ==
    /\ UiIdle /\ task["onOpen"].pc = "idle"
    /\ settings.isReadOnlyMode
    /\ Commit(editEnter(Start(World, "ui", "enableEditMode", NoBranch), "ui"))

\* main.ts:94-100 the command Select Branch for Editing
selectBranchForEditing ==
    /\ UiIdle /\ task["onOpen"].pc = "idle"
    /\ Commit(openSelection(World))

enableEditMode_checkout ==
    \E ok \in BOOLEAN :
        /\ Settling("ui", "eem_checkout", ok)
        /\ Commit(editCheckout(Settle(World, "ui", ok), "ui", ok))

forceEnableReadOnlyMode ==
    /\ UiIdle
    /\ Commit(forceEnter(Start(World, "ui", "forceEnableReadOnlyMode", NoBranch), "ui"))

forceEnableReadOnlyMode_checkout ==
    \E ok \in BOOLEAN :
        /\ Settling("ui", "fe_checkout", ok)
        /\ Commit(forceCheckout(Settle(World, "ui", ok), "ui", ok))

\* readonly.ts:112-124
enableReadOnlyModeWithBranch ==
    /\ UiIdle
    /\ LET W == Start(World, "ui", "enableReadOnlyModeWithBranch", NoBranch) IN
       Commit(IF settings.isRepositoryConnected /\ ~settings.isReadOnlyMode
              THEN statusEnter(Call(W, "ui", "erwb_cfu"), "ui")
              ELSE forceEnter(Call(W, "ui", "erwb_fe"), "ui"))

checkForUncommittedChanges_status ==
    \E ok \in BOOLEAN :
        /\ Settling("ui", "cfu_status", ok)
        /\ Commit(statusRead(Settle(World, "ui", ok), "ui", ok))

switchToBranch ==
    \E b \in Branches :
        /\ UiIdle
        /\ Commit(switchEnter(Start(World, "ui", "switchToBranch", b), "ui"))

switchToBranch_checkout ==
    \E ok \in BOOLEAN :
        /\ Settling("ui", "sw_checkout", ok)
        /\ Commit(switchCheckout(Settle(World, "ui", ok), "ui", ok))

createNewBranch ==
    \E b \in Branches :
        /\ UiIdle
        /\ Commit(createEnter(Start(World, "ui", "createNewBranch", b), "ui"))

createNewBranch_checkout ==
    \E ok \in BOOLEAN :
        /\ Settling("ui", "cnb_checkout", ok)
        /\ Commit(createCheckout(Settle(World, "ui", ok), "ui", ok))

validateAndEnforceBranchRules ==
    /\ UiIdle
    /\ Commit(validateEnter(Start(World, "ui", "validateAndEnforceBranchRules", NoBranch), "ui"))

validate_read ==
    \E ok \in BOOLEAN :
        /\ Settling("ui", "val_read", ok)
        /\ Commit(validateRead(Settle(World, "ui", ok), "ui", ok))

validate_checkout ==
    \E ok \in BOOLEAN :
        /\ Settling("ui", "val_checkout", ok)
        /\ Commit(validateCheckout(Settle(World, "ui", ok), "ui", ok))

pullLatestChanges ==
    /\ UiIdle
    /\ Commit(pullEnter(Start(World, "ui", "pullLatestChanges", NoBranch), "ui"))

pullLatestChanges_checkout ==
    \E ok \in BOOLEAN :
        /\ Settling("ui", "pull_checkout", ok)
        /\ Commit(pullCheckout(Settle(World, "ui", ok), "ui", ok))

pullLatestChanges_pull ==
    \E ok \in BOOLEAN :
        /\ Settling("ui", "pull_pull", ok)
        /\ Commit(pullPull(Settle(World, "ui", ok), "ui", ok))

commitChanges_add ==
    \E ok \in BOOLEAN :
        /\ Settling("ui", "commit_add", ok)
        /\ Commit(commitAdd(Settle(World, "ui", ok), "ui", ok))

commitChanges_commit ==
    \E ok \in BOOLEAN :
        /\ Settling("ui", "commit_commit", ok)
        /\ Commit(commitCommit(Settle(World, "ui", ok), "ui", ok))

refreshAvailableBranches_branch ==
    \E ok \in BOOLEAN :
        /\ Settling("onOpen", "rab_branch", ok)
        /\ Commit(refreshRead(Settle(World, "onOpen", ok), "onOpen", ok))

\* the dismissal continues the suspended transition as if it had been declined
dismissed_proceed(W, how) ==
    forceEnter(Call([W EXCEPT !.task["ui"].modal = how, !.task["ui"].pc = "running"],
                    "ui", "erwb_fe"), "ui")

\* modals.ts:116-117, 137-140, 695-698, 833-836 Modal.close(): the content is
\* emptied and the suspended transition is dropped
dismissed(W, how) == [W EXCEPT !.task["ui"].modal = how]

\* modals.ts:63-69 a branch button of the BranchSelectionModal
selectBranch ==
    \E i \in 1..Len(settings.availableBranches) :
        LET b == settings.availableBranches[i] IN
        /\ UiIdle /\ task["onOpen"].pc = "idle" /\ selectionModalOpen
        /\ b # settings.mainBranch
        /\ Commit(switchEnter(Call(Start(World, "ui", "selectBranch", b), "ui", "sel_sw"), "ui"))

\* modals.ts:121-134 the Create & Edit button
createAndEdit ==
    \E b \in Branches :
        /\ UiIdle /\ task["onOpen"].pc = "idle" /\ selectionModalOpen
        /\ Commit(createEnter(Call(Start(World, "ui", "createAndEdit", b), "ui", "new_cnb"), "ui"))

\* modals.ts:116-117 the Cancel button, rendered once onOpen has refreshed
cancelSelection ==
    /\ UiIdle /\ task["onOpen"].pc = "idle" /\ selectionModalOpen
    /\ Commit(dismissed([World EXCEPT !.selOpen = FALSE], "cancelSelection"))

\* modals.ts:137-140 the modal is closed from its frame, at any time
closeSelection ==
    /\ UiIdle /\ selectionModalOpen
    /\ Commit(dismissed([World EXCEPT !.selOpen = FALSE], "closeSelection"))

\* modals.ts:758-783 Save as Draft with a non-empty message
saveAsDraft ==
    /\ UiIdle /\ saveModal.open
    /\ LET W == Start(World, "ui", "saveAsDraft", NoBranch) IN
       Commit(IF saveModal.currentBranch = settings.mainBranch
              THEN Return(Note(W, "ui", "cannotCommitMain"), "ui", "none")
              ELSE commitEnter(Call(W, "ui", "draft_commit"), "ui"))

\* modals.ts:785-830 Save & Push with a non-empty message
saveAndPush ==
    /\ UiIdle /\ saveModal.open
    /\ LET W == Start(World, "ui", "saveAndPush", NoBranch) IN
       Commit(IF saveModal.currentBranch = settings.mainBranch
              THEN Return(Note(W, "ui", "cannotCommitMain"), "ui", "none")
              ELSE commitEnter(Call(W, "ui", "sap_commit"), "ui"))

isBranchOnRemote_lsremote ==
    \E ok \in BOOLEAN :
        /\ Settling("ui", "ibr_lsremote", ok)
        /\ Commit(remoteRead(Settle(World, "ui", ok), "ui", ok))

pushChanges_fetch ==
    \E ok \in BOOLEAN :
        /\ Settling("ui", "push_fetch", ok)
        /\ Commit(pushFetch(Settle(World, "ui", ok), "ui", ok))

pushChanges_revlist ==
    \E ok \in BOOLEAN, n \in 0..MaxBehind :
        /\ Settling("ui", "push_revlist", ok)
        /\ ~ok => n = 0
        /\ Commit(pushRevList(Settle(World, "ui", ok), "ui", ok, n))

pushChanges_pull ==
    \E ok \in BOOLEAN :
        /\ Settling("ui", "push_pull", ok)
        /\ Commit(pushPull(Settle(World, "ui", ok), "ui", ok))

pushChanges_push ==
    \E ok \in BOOLEAN :
        /\ Settling("ui", "push_push", ok)
        /\ Commit(pushPush(Settle(World, "ui", ok), "ui", ok))

\* settings.ts:135-147 the Disconnect button, shown while connected
disconnectRepository ==
    /\ UiIdle
    /\ settings.isRepositoryConnected
    /\ Commit(saveSettings([World EXCEPT !.settings.isRepositoryConnected = FALSE]))

\* settings.ts:107-126, modals.ts:355-375 the Clone button, shown while no
\* repository is connected
cloneRepository ==
    /\ UiIdle
    /\ ~settings.isRepositoryConnected
    /\ Commit(cloneEnter(Start(World, "ui", "cloneRepository", NoBranch), "ui"))

cloneRepository_readdir ==
    \E ok \in BOOLEAN :
        /\ Settling("ui", "clone_readdir", ok)
        /\ Commit(cloneReaddir(Settle(World, "ui", ok), "ui", ok))

cloneRepository_clone ==
    \E ok \in BOOLEAN, d \in RemoteDefaults :
        /\ Settling("ui", "clone_clone", ok)
        /\ Commit(cloneClone(Settle(World, "ui", ok), "ui", ok, d))

cloneRepository_move ==
    \E ok \in BOOLEAN :
        /\ Settling("ui", "clone_move", ok)
        /\ Commit(cloneMove(Settle(World, "ui", ok), "ui", ok))

cloneRepository_show ==
    \E ok \in BOOLEAN :
        /\ Settling("ui", "clone_show", ok)
        /\ Commit(cloneShow(Settle(World, "ui", ok), "ui", ok))

cloneRepository_checkoutb ==
    \E ok \in BOOLEAN :
        /\ Settling("ui", "clone_checkoutb", ok)
        /\ Commit(cloneCheckoutB(Settle(World, "ui", ok), "ui", ok))

cloneRepository_delmaster ==
    \E ok \in BOOLEAN :
        /\ Settling("ui", "clone_delmaster", ok)
        /\ Commit(cloneDelMaster(Settle(World, "ui", ok), "ui", ok))

cloneRepository_brancha ==
    \E ok \in BOOLEAN :
        /\ Settling("ui", "clone_brancha", ok)
        /\ Commit(cloneBranchA(Settle(World, "ui", ok), "ui", ok))

cloneRepository_list ==
    \E ok \in BOOLEAN :
        /\ Settling("ui", "clone_list", ok)
        /\ Commit(cloneList(Settle(World, "ui", ok), "ui", ok))

\* main.ts:110-116 the command Pull Latest Changes; the callback does not
\* wait for a handler that is still running
pullCommand ==
    /\ pluginLoaded /\ task["cmd"].pc = "idle"
    /\ Commit(pullEnter(Start(World, "cmd", "pullLatestChanges", NoBranch), "cmd"))

pullCommand_checkout ==
    \E ok \in BOOLEAN :
        /\ Settling("cmd", "pull_checkout", ok)
        /\ Commit(pullCheckout(Settle(World, "cmd", ok), "cmd", ok))

pullCommand_pull ==
    \E ok \in BOOLEAN :
        /\ Settling("cmd", "pull_pull", ok)
        /\ Commit(pullPull(Settle(World, "cmd", ok), "cmd", ok))

\* main.ts:207-211 setRepositoryToken(url, token)
setRepositoryToken ==
    \E u \in Urls, tok \in Tokens :
        /\ UiIdle
        /\ \/ normalizeRepositoryUrl(u) \in DOMAIN settings.repositoryTokens
           \/ Cardinality(DOMAIN settings.repositoryTokens) < MaxTokens
        /\ LET W == Start(World, "ui", "setRepositoryToken", NoBranch) IN
           Commit(Return(saveSettings(
               [W EXCEPT !.task["ui"].url = u, !.task["ui"].token = tok,
                         !.settings.repositoryTokens = WithToken(@, u, tok)]),
               "ui", "none"))

\* main.ts:213-217 removeRepositoryToken(url)
removeRepositoryToken ==
    \E u \in Urls :
        /\ UiIdle
        /\ LET W == Start(World, "ui", "removeRepositoryToken", NoBranch) IN
           Commit(Return(saveSettings(
               [W EXCEPT !.task["ui"].url = u,
                         !.settings.repositoryTokens = WithoutToken(@, u)]),
               "ui", "none"))

\* main.ts:202-205 getRepositoryToken(url)
getRepositoryToken ==
    \E u \in Urls :
        /\ UiIdle
        /\ LET W == Start(World, "ui", "getRepositoryToken", NoBranch) IN
           Commit(Return([W EXCEPT !.task["ui"].url = u], "ui",
                         TokenFor(settings, u)))

\* modals.ts:818-820, 855-866 the timer of Save & Push opens the CreatePRModal
\* for the pushed branch; onOpen reads the token saved for the repository
openCreatePRModal ==
    \E b \in gitBranches \ {settings.mainBranch} :
        /\ UiIdle /\ ~prModal.open
        /\ Commit([World EXCEPT !.prModal =
               [open |-> TRUE, branchName |-> b,
                existingToken |-> TokenFor(settings, settings.repositoryUrl)]])

\* modals.ts:917-918 the Skip button
skipCreatePR ==
    /\ UiIdle /\ prModal.open
    /\ Commit([World EXCEPT !.prModal.open = FALSE])

\* modals.ts:922-948 the Create Pull Request button
createPullRequest ==
    \E typed \in Tokens \cup {""} :
        /\ UiIdle /\ prModal.open
        /\ prModal.existingToken # "undefined" => typed = ""
        /\ Commit(createPRClicked(Start(World, "ui", "createPullRequest",
                                        prModal.branchName), "ui", typed))

createPullRequest_response ==
    \E ok \in BOOLEAN :
        /\ Settling("ui", "cpr_post", ok)
        /\ Commit(createPRResponse(Settle(World, "ui", ok), "ui", ok))

\* modals.ts:581-583 the Merge Pull Request button
mergePullRequest ==
    /\ UiIdle /\ ~postMergeTimer
    /\ Commit(mergeEnter(Start(World, "ui", "mergePullRequest", NoBranch), "ui"))

mergePullRequest_response ==
    \E ok \in BOOLEAN :
        /\ Settling("ui", "merge_put", ok)
        /\ Commit(mergeResponse(Settle(World, "ui", ok), "ui", ok))

\* git.ts:555, 562-567 checkRemoteUpdates is called without being awaited
checkRemoteUpdates ==
    /\ pluginLoaded /\ task["timer"].pc = "idle"
    /\ settings.isRepositoryConnected
    /\ Commit(cruEnter(Start(World, "timer", "checkRemoteUpdates", NoBranch), "timer"))

\* git.ts:567, 583 the 2000 ms timer fires
checkRemoteUpdates_timeout ==
    /\ task["timer"].pc = "cru_timer"
    /\ Commit(cruTimeout(World, "timer"))

checkRemoteUpdates_fetch ==
    \E ok \in BOOLEAN :
        /\ Settling("timer", "cru_fetch", ok)
        /\ Commit(cruFetch(Settle(World, "timer", ok), "timer", ok))

checkRemoteUpdates_revlist ==
    \E ok \in BOOLEAN, n \in 0..MaxBehind :
        /\ Settling("timer", "cru_revlist", ok)
        /\ ~ok => n = 0
        /\ Commit(cruRevList(Settle(World, "timer", ok), "timer", ok, n))

\* a pull request is opened on GitHub, or GitHub recomputes whether it merges
remotePullRequest ==
    \E n \in PRNumbers, m \in Mergeable :
        /\ remotePRs[n].state \in {"none", "open"}
        /\ remotePRs[n] # [state |-> "open", mergeable |-> m]
        /\ Commit([World EXCEPT !.remotePRs[n] = [state |-> "open", mergeable |-> m]])

\* main.ts:102-108 the command Manage Pull Requests; modals.ts:401-411 onOpen
openPullRequestManager ==
    /\ UiIdle /\ task["onOpen"].pc = "idle" /\ ~prManager.open
    /\ Commit(fetchEnter([World EXCEPT !.prManager.open = TRUE]))

fetchPullRequests_response ==
    \E ok \in BOOLEAN :
        /\ Settling("onOpen", "fpr_get", ok)
        /\ Commit(fetchResponse(Settle(World, "onOpen", ok), "onOpen", ok))

\* modals.ts:440-442 the Refresh button
refreshPullRequests ==
    /\ UiIdle /\ task["onOpen"].pc = "idle" /\ prManager.open
    /\ prManager.mergeFor = "none" /\ prManager.closeFor = "none"
    /\ Commit(fetchEnter(World))

\* modals.ts:646-649 the manager is closed
closePullRequestManager ==
    /\ UiIdle /\ prManager.open
    /\ prManager.mergeFor = "none" /\ prManager.closeFor = "none"
    /\ Commit([World EXCEPT !.prManager.open = FALSE])

\* modals.ts:521-526 the Merge button of a listed pull request
showMergeOptions ==
    \E n \in DOMAIN prManager.pullRequests :
        /\ UiIdle /\ task["onOpen"].pc = "idle" /\ prManager.open
        /\ prManager.mergeFor = "none" /\ prManager.closeFor = "none"
        /\ "merge" \in Buttons(prManager.pullRequests[n])
        /\ Commit([World EXCEPT !.prManager.mergeFor = n])

\* modals.ts:577-578 Cancel in the merge options
cancelMergeOptions ==
    /\ UiIdle /\ prManager.mergeFor # "none"
    /\ Commit([World EXCEPT !.prManager.mergeFor = "none"])

\* modals.ts:581-600 Merge Pull Request in the merge options of a listed
\* pull request
confirmMerge ==
    /\ UiIdle /\ prManager.mergeFor # "none"
    /\ LET n == prManager.mergeFor
           W == Start(World, "ui", "mergePullRequest", n)
       IN Commit(mergeEnter([W EXCEPT !.task["ui"].mergeable =
                                prManager.pullRequests[n]], "ui"))

\* modals.ts:528-531 the Close button of a listed pull request
confirmClosePR ==
    \E n \in DOMAIN prManager.pullRequests :
        /\ UiIdle /\ task["onOpen"].pc = "idle" /\ prManager.open
        /\ prManager.mergeFor = "none" /\ prManager.closeFor = "none"
        /\ "close" \in Buttons(prManager.pullRequests[n])
        /\ Commit([World EXCEPT !.prManager.closeFor = n])

\* modals.ts:630-631 Cancel in the close confirmation
cancelClosePR ==
    /\ UiIdle /\ prManager.closeFor # "none"
    /\ Commit([World EXCEPT !.prManager.closeFor = "none"])

\* modals.ts:633-641 Close Pull Request in the confirmation
closePullRequest ==
    /\ UiIdle /\ prManager.closeFor # "none"
    /\ LET n == prManager.closeFor
           W == Start(World, "ui", "closePullRequest", n)
       IN Commit(closeEnter([W EXCEPT !.task["ui"].mergeable =
                                prManager.pullRequests[n]], "ui"))

closePullRequest_response ==
    \E ok \in BOOLEAN :
        /\ Settling("ui", "close_patch", ok)
        /\ Commit(closeResponse(Settle(World, "ui", ok), "ui", ok))

\* modals.ts:589-598 the callback of the post-merge setTimeout
postMergeSync ==
    /\ UiIdle /\ postMergeTimer
    /\ LET W == Call(Start([World EXCEPT !.timer = FALSE], "ui",
                           "postMergeSync", NoBranch), "ui", "pm_erwb")
       IN Commit(IF settings.isRepositoryConnected /\ ~settings.isReadOnlyMode
                 THEN statusEnter(Call(W, "ui", "erwb_cfu"), "ui")
                 ELSE forceEnter(Call(W, "ui", "erwb_fe"), "ui"))

\* modals.ts:695-698
cancelSave ==
    /\ UiIdle /\ saveModal.open
    /\ Commit(dismissed([World EXCEPT !.saveModal.open = FALSE], "cancelSave"))

\* modals.ts:832-835 the save dialog is closed from its frame
closeSave ==
    /\ UiIdle /\ saveModal.open
    /\ Commit(dismissed([World EXCEPT !.saveModal.open = FALSE], "closeSave"))

\* settings.ts:25-27 the Default to Read-Only Mode toggle
toggleDefaultReadOnly ==
    /\ UiIdle
    /\ Commit(saveSettings([World EXCEPT !.settings.isReadOnlyMode = ~@]))

\* the user types into a note; key input is blocked in read-only mode
userEdit ==
    /\ ~settings.isReadOnlyMode
    /\ ~dirty
    /\ Commit([World EXCEPT !.dirty = TRUE])

Next ==
    \/ enableEditMode
    \/ enableEditMode_checkout
    \/ forceEnableReadOnlyMode
    \/ forceEnableReadOnlyMode_checkout
    \/ enableReadOnlyModeWithBranch
    \/ checkForUncommittedChanges_status
    \/ switchToBranch
    \/ switchToBranch_checkout
    \/ createNewBranch
    \/ createNewBranch_checkout
    \/ validateAndEnforceBranchRules
    \/ validate_read
    \/ validate_checkout
    \/ pullLatestChanges
    \/ pullLatestChanges_checkout
    \/ pullLatestChanges_pull
    \/ commitChanges_add
    \/ commitChanges_commit
    \/ saveAsDraft
    \/ cancelSave
    \/ userEdit

\* the transitions of the branch-mode state machine, invoked one at a time
Spec == Init /\ [][Next]_vars

\* the two modals that suspend a transition, with every way of leaving them
NextCancel ==
    \/ ribbonEnableEditMode
    \/ refreshAvailableBranches_branch
    \/ createAndEdit
    \/ createNewBranch_checkout
    \/ switchToBranch_checkout
    \/ enableEditMode_checkout
    \/ validate_read
    \/ cancelSelection
    \/ closeSelection
    \/ enableReadOnlyModeWithBranch
    \/ checkForUncommittedChanges_status
    \/ forceEnableReadOnlyMode_checkout
    \/ saveAsDraft
    \/ commitChanges_add
    \/ commitChanges_commit
    \/ cancelSave
    \/ closeSave
    \/ userEdit

SpecCancel == Init /\ [][NextCancel]_vars

\* the same with the settings tab
NextSettings == Next \/ toggleDefaultReadOnly \/ disconnectRepository

SpecSettings == Init /\ [][NextSettings]_vars

\* the BranchSelectionModal and its detached onOpen
NextSelection ==
    \/ ribbonEnableEditMode
    \/ selectBranchForEditing
    \/ refreshAvailableBranches_branch
    \/ selectBranch
    \/ createAndEdit
    \/ cancelSelection
    \/ enableEditMode_checkout
    \/ switchToBranch_checkout
    \/ createNewBranch_checkout
    \/ validate_read
    \/ forceEnableReadOnlyMode
    \/ forceEnableReadOnlyMode_checkout

SpecSelection == Init /\ [][NextSelection]_vars

\* the SaveChangesModal with Save & Push
NextPush ==
    \/ createNewBranch
    \/ createNewBranch_checkout
    \/ enableEditMode
    \/ enableEditMode_checkout
    \/ validate_read
    \/ userEdit
    \/ enableReadOnlyModeWithBranch
    \/ checkForUncommittedChanges_status
    \/ forceEnableReadOnlyMode_checkout
    \/ saveAndPush
    \/ commitChanges_add
    \/ commitChanges_commit
    \/ isBranchOnRemote_lsremote
    \/ pushChanges_fetch
    \/ pushChanges_revlist
    \/ pushChanges_pull
    \/ pushChanges_push
    \/ cancelSave

SpecPush == Init /\ [][NextPush]_vars

\* the merge button of the pull request manager and its post-merge sync
NextMerge ==
    \/ createNewBranch
    \/ createNewBranch_checkout
    \/ enableEditMode
    \/ enableEditMode_checkout
    \/ validate_read
    \/ userEdit
    \/ mergePullRequest
    \/ mergePullRequest_response
    \/ postMergeSync
    \/ checkForUncommittedChanges_status
    \/ forceEnableReadOnlyMode_checkout
    \/ pullLatestChanges_checkout
    \/ pullLatestChanges_pull
    \/ saveAsDraft
    \/ commitChanges_add
    \/ commitChanges_commit
    \/ cancelSave

SpecMerge == Init /\ [][NextMerge]_vars

\* the plugin is stopped and started again between transitions
NextStartup ==
    \/ onunload
    \/ externalCheckout
    \/ onload
    \/ createNewBranch
    \/ createNewBranch_checkout
    \/ enableEditMode
    \/ enableEditMode_checkout
    \/ forceEnableReadOnlyMode
    \/ forceEnableReadOnlyMode_checkout
    \/ validate_read

SpecStartup == Init /\ [][NextStartup]_vars

\* the sequences that hold isGitOperationInProgress
NextGuarded ==
    \/ NextPush
    \/ pullLatestChanges
    \/ pullLatestChanges_checkout
    \/ pullLatestChanges_pull
    \/ cloneRepository
    \/ cloneRepository_readdir
    \/ cloneRepository_clone
    \/ cloneRepository_move
    \/ cloneRepository_show
    \/ cloneRepository_checkoutb
    \/ cloneRepository_delmaster
    \/ cloneRepository_brancha
    \/ cloneRepository_list

\* a fresh plugin in a vault without repository, where cloning starts
SpecGuarded == InitFresh /\ [][NextGuarded]_vars

\* the pull command started while a transition of the user is in flight
NextOverlap ==
    \/ createNewBranch
    \/ createNewBranch_checkout
    \/ enableEditMode
    \/ enableEditMode_checkout
    \/ validate_read
    \/ pullLatestChanges
    \/ pullLatestChanges_checkout
    \/ pullLatestChanges_pull
    \/ pullCommand
    \/ pullCommand_checkout
    \/ pullCommand_pull

SpecOverlap == Init /\ [][NextOverlap]_vars

\* the CreatePRModal, with the token of the repository saved or not
NextCreatePR ==
    \/ createNewBranch
    \/ createNewBranch_checkout
    \/ removeRepositoryToken
    \/ openCreatePRModal
    \/ skipCreatePR
    \/ createPullRequest
    \/ createPullRequest_response

SpecCreatePR == Init /\ [][NextCreatePR]_vars

\* the pull request manager: listing, merging and closing
NextManager ==
    \/ remotePullRequest
    \/ openPullRequestManager
    \/ fetchPullRequests_response
    \/ refreshPullRequests
    \/ closePullRequestManager
    \/ showMergeOptions
    \/ cancelMergeOptions
    \/ confirmMerge
    \/ mergePullRequest_response
    \/ confirmClosePR
    \/ cancelClosePR
    \/ closePullRequest
    \/ closePullRequest_response

SpecManager == Init /\ [][NextManager]_vars

\* the detached remote-update check beside the transitions of the user
NextBackground ==
    \/ createNewBranch
    \/ createNewBranch_checkout
    \/ enableEditMode
    \/ enableEditMode_checkout
    \/ validate_read
    \/ pullLatestChanges
    \/ pullLatestChanges_checkout
    \/ pullLatestChanges_pull
    \/ checkRemoteUpdates
    \/ checkRemoteUpdates_timeout
    \/ checkRemoteUpdates_fetch
    \/ checkRemoteUpdates_revlist

SpecBackground == Init /\ [][NextBackground]_vars

\* the credential mapping
NextTokens ==
    \/ setRepositoryToken
    \/ removeRepositoryToken
    \/ getRepositoryToken

SpecTokens == Init /\ [][NextTokens]_vars

----------------------------------------------------------------------------
(* the properties *)

\* the call the user made last, finished or still running
T == task["ui"]
Finished(op) == T.pc = "idle" /\ T.op = op
Connected == settings.isRepositoryConnected

HasCommand(cmds, c) == \E i \in 1..Len(cmds) : cmds[i][1] = c
FirstCommandIs(c, b, r) == Len(T.cmds) >= 1 /\ T.cmds[1] = <<c, b, r>>

\* C1: with a repository connected, after any sequence of transitions the
\* settings have isReadOnlyMode exactly when currentBranch is mainBranch
C1_ModeBranchCoupling ==
    (Idle /\ Connected) =>
        (settings.isReadOnlyMode <=> settings.currentBranch = settings.mainBranch)

\* C2: isReadOnlyMode is never true while the branch that is checked out is
\* not mainBranch, the states inside a running transition included
C2_NeverReadOnlyOffMain ==
    ~(settings.isReadOnlyMode /\ actualBranch # settings.mainBranch)

\* C3: with a repository connected and no operation in flight, edit mode
\* implies that the branch checked out is not mainBranch
C3_NeverEditingOnMain ==
    (Idle /\ Connected /\ ~settings.isReadOnlyMode) =>
        actualBranch # settings.mainBranch

\* the case of C4: a finished enableEditMode(mainBranch) on a connected repository
C4_Witness ==
    /\ Finished("enableEditMode")
    /\ T.pre.isRepositoryConnected
    /\ T.arg = T.pre.mainBranch

\* C4: enableEditMode(mainBranch) ends with the policy notice only, has issued
\* no git command and leaves the settings and the persisted record unchanged
C4_MainBranchEditRejected ==
    C4_Witness =>
        /\ T.notices = {"cannotEnableEditOnMain"}
        /\ T.cmds = <<>>
        /\ settings = T.pre
        /\ saved = T.preSaved

\* the case of C5: a finished switchToBranch(mainBranch) called in edit mode
C5_Witness ==
    /\ Finished("switchToBranch")
    /\ ~T.pre.isReadOnlyMode
    /\ T.arg = T.pre.mainBranch

\* C5: switchToBranch(mainBranch) in edit mode returns false, issues no
\* checkout and changes neither currentBranch nor isReadOnlyMode
C5_SwitchToMainRejectedInEditMode ==
    C5_Witness =>
        /\ T.ret = "false"
        /\ ~HasCommand(T.cmds, "checkout")
        /\ settings.currentBranch = T.pre.currentBranch
        /\ settings.isReadOnlyMode = T.pre.isReadOnlyMode
        /\ actualBranch = T.preActual

\* the case of C6: a finished switchToBranch(b), b not mainBranch, called in
\* read-only mode
C6_Witness ==
    /\ Finished("switchToBranch")
    /\ T.pre.isReadOnlyMode
    /\ T.arg # T.pre.mainBranch

\* C6: switchToBranch(b) in read-only mode with b not mainBranch returns
\* false, issues no checkout and changes neither currentBranch nor
\* isReadOnlyMode
C6_SwitchOffMainRejectedInReadOnly ==
    C6_Witness =>
        /\ T.ret = "false"
        /\ ~HasCommand(T.cmds, "checkout")
        /\ settings.currentBranch = T.pre.currentBranch
        /\ settings.isReadOnlyMode = T.pre.isReadOnlyMode
        /\ actualBranch = T.preActual

\* a finished call of the validator that started on mainBranch in edit mode
C7_Drift ==
    /\ Finished("validateAndEnforceBranchRules")
    /\ T.preActual = T.pre.mainBranch
    /\ ~T.pre.isReadOnlyMode

\* what C7 promises of the call
C7_Healed ==
    /\ settings.isReadOnlyMode
    /\ T.notices # {}
    /\ ~HasCommand(T.cmds, "checkout")
    /\ T.ret \in {"true", "false"}

C8_Witness ==
    /\ Finished("enableEditMode")
    /\ T.pre.isRepositoryConnected
    /\ T.pre.mainBranch = "main" /\ T.pre.currentBranch = "main"
    /\ T.pre.isReadOnlyMode
    /\ T.arg \in Branches \ {"main"}
    /\ FirstCommandIs("checkout", T.arg, "ok")

\* C8: scenario A ends, after the trailing validator run, with
\* currentBranch = b, lastWorkingBranch = b and isReadOnlyMode false
C8_ScenarioA ==
    C8_Witness =>
        /\ settings.currentBranch = T.arg
        /\ settings.lastWorkingBranch = T.arg
        /\ ~settings.isReadOnlyMode

\* the case of C9: a finished enableEditMode(b) whose checkout failed
C9_Witness ==
    /\ Finished("enableEditMode")
    /\ FirstCommandIs("checkout", T.arg, "fail")

\* C9: a failed checkout in enableEditMode leaves isReadOnlyMode,
\* currentBranch and lastWorkingBranch as they were and shows the error
C9_EditCheckoutFailureAborts ==
    C9_Witness =>
        /\ settings.isReadOnlyMode = T.pre.isReadOnlyMode
        /\ settings.currentBranch = T.pre.currentBranch
        /\ settings.lastWorkingBranch = T.pre.lastWorkingBranch
        /\ "checkoutFailed" \in T.notices

\* C10: when the checkout of mainBranch in forceEnableReadOnlyMode fails,
\* isReadOnlyMode is afterwards what it was before the call
C10_ForceRollsBackMode ==
    (Finished("forceEnableReadOnlyMode")
        /\ FirstCommandIs("checkout", T.pre.mainBranch, "fail")) =>
        settings.isReadOnlyMode = T.pre.isReadOnlyMode

\* enableReadOnlyModeWithBranch called in edit mode on a non-main branch with
\* uncommitted changes, finished
C11_Requested ==
    /\ Finished("enableReadOnlyModeWithBranch")
    /\ T.pre.isRepositoryConnected
    /\ ~T.pre.isReadOnlyMode
    /\ T.preActual # T.pre.mainBranch
    /\ T.preDirty

\* the call has shown the save dialog and has not started the transition
C11_Suspended ==
    /\ "saveChangesModal" \in T.notices
    /\ ~HasCommand(T.cmds, "checkout")
    /\ settings = T.pre
    /\ actualBranch = T.preActual

C12_NoCommitOnMain ==
    T.op \in {"saveAsDraft", "saveAndPush"} =>
        ~\E i \in 1..Len(T.cmds) :
            T.cmds[i] = <<"commit -m", settings.mainBranch, "ok">>

\* index of the first command c of the running call, 0 when there is none
FirstIndex(c) ==
    IF HasCommand(T.cmds, c)
    THEN CHOOSE i \in 1..Len(T.cmds) :
            T.cmds[i][1] = c /\ \A j \in 1..(i - 1) : T.cmds[j][1] # c
    ELSE 0

\* pushChanges, called by Save & Push, has read a behind count above zero
C13_Behind == T.op = "saveAndPush" /\ T.behind > 0

\* the case of C13: the pull that pushChanges issued before pushing failed
C13_Witness ==
    /\ C13_Behind
    /\ Finished("saveAndPush")
    /\ T.cmds[FirstIndex("pull origin")] = <<"pull origin", T.branch, "fail">>

\* C13: with a behind count above zero `git pull origin <branch>` is issued
\* before any `git push`; when that pull fails no push is issued and
\* pushChanges returns false, which Save & Push reports
C13_PullBeforePush ==
    C13_Behind =>
        /\ HasCommand(T.cmds, "pull origin")
        /\ HasCommand(T.cmds, "push origin") =>
                /\ FirstIndex("pull origin") < FirstIndex("push origin")
                /\ T.cmds[FirstIndex("pull origin")] = <<"pull origin", T.branch, "ok">>
        /\ C13_Witness => ("pushFailed" \in T.notices /\ "pushed" \notin T.notices)

\* C14: when Save & Push fails because the pull before the push failed, the
\* failure is reported as a conflict and no generic push-failure notice is
\* shown for that click
C14_ConflictNoticeOnly ==
    C13_Witness =>
        /\ "cannotPushBehind" \in T.notices
        /\ "pushFailed" \notin T.notices

LastCommand == T.cmds[Len(T.cmds)]

\* the case of C15: the post-merge callback has run to its end and its
\* pullLatestChanges failed, at the checkout or at the pull
C15_Witness ==
    /\ Finished("postMergeSync")
    /\ LastCommand[3] = "fail"
    /\ LastCommand[1] \in {"checkout", "pull origin"}

\* C15: the post-merge callback runs only after a successful merge; it
\* first attempts the read-only transition and then pullLatestChanges; when
\* that pull fails the merge stays merged, no merge failure is reported and
\* the notice of the failed pull is shown
C15_PostMergeSync ==
    /\ (postMergeTimer \/ T.op = "postMergeSync") => prMerged
    /\ (Finished("mergePullRequest") /\ T.ret = "true") => postMergeTimer
    /\ Finished("postMergeSync") =>
            /\ Len(T.cmds) >= 2
            /\ T.cmds[1][1] \in {"status --porcelain", "checkout"}
            /\ \/ LastCommand[1] = "pull origin" /\ LastCommand[2] = settings.mainBranch
               \/ LastCommand = <<"checkout", settings.mainBranch, "fail">>
            /\ ("pulled" \in T.notices) # ("pullFailed" \in T.notices)
    /\ C15_Witness =>
            /\ prMerged
            /\ "pullFailed" \in T.notices
            /\ "mergeFailed" \notin T.notices

\* C16: while the save decision requested by the post-merge
\* enableReadOnlyModeWithBranch is pending, the working tree is not moved to
\* mainBranch by the pull that follows
C16_PullWaitsForSaveDecision ==
    (/\ T.op = "postMergeSync"
     /\ T.preActual # T.pre.mainBranch
     /\ "saveChangesModal" \in T.notices
     /\ saveModal.open) =>
        actualBranch # settings.mainBranch

\* one complete call of validateAndEnforceBranchRules on W, all of whose git
\* commands succeed
ValidatorRun(W) ==
    LET W0 == validateEnter(Start(W, "ui", "validateAndEnforceBranchRules", NoBranch), "ui")
        W1 == IF W0.task["ui"].pc = "val_read"
              THEN validateRead(Settle(W0, "ui", TRUE), "ui", TRUE) ELSE W0
    IN  IF W1.task["ui"].pc = "val_checkout"
        THEN validateCheckout(Settle(W1, "ui", TRUE), "ui", TRUE) ELSE W1

AllCommandsOk == \A i \in 1..Len(T.cmds) : T.cmds[i][3] = "ok"

\* C17: after a call of validateAndEnforceBranchRules a second call, with
\* nothing changed in between, leaves the settings and the checked-out
\* branch as the first call left them
C17_ValidatorIdempotent ==
    (Finished("validateAndEnforceBranchRules") /\ AllCommandsOk) =>
        /\ ValidatorRun(World).settings = settings
        /\ ValidatorRun(World).actual = actualBranch

\* C18: when the plugin starts with a repository connected, onload runs
\* validateAndEnforceBranchRules, whose first step asks git for the branch
\* that is checked out
C18_StartupRunsValidator ==
    (Finished("onload") /\ Connected) =>
        HasCommand(T.cmds, "branch --show-current")

\* C19: an operation that has changed the checked-out branch runs
\* validateAndEnforceBranchRules after the change and before it returns
C19_ValidatorAfterBranchChange ==
    (/\ T.pc = "idle"
     /\ T.op \in {"enableEditMode", "forceEnableReadOnlyMode", "switchToBranch",
                  "createNewBranch", "pullLatestChanges"}) =>
        \A i \in 1..Len(T.cmds) :
            (T.cmds[i][1] \in {"checkout", "checkout -b"} /\ T.cmds[i][3] = "ok") =>
                \E j \in (i + 1)..Len(T.cmds) : T.cmds[j][1] = "branch --show-current"

\* the suspension points inside the guarded sequences
GuardedLabels ==
    {"push_pull", "pull_checkout", "pull_pull", "clone_readdir", "clone_clone",
     "clone_move", "clone_show", "clone_checkoutb", "clone_delmaster",
     "clone_brancha", "clone_list"}

\* the case of C20: a guarded sequence has left through its error path
C20_Witness ==
    /\ T.pc = "idle"
    /\ \/ T.op = "cloneRepository" /\ "cloneFailed" \in T.notices
       \/ T.op = "pullLatestChanges" /\ "pullFailed" \in T.notices
       \/ T.op = "saveAndPush" /\ "cannotPushBehind" \in T.notices

\* C20: isGitOperationInProgress is set only while the pull before a push,
\* pullLatestChanges or cloneRepository is suspended at one of its steps; it
\* is false once the sequence has finished, however it finished
C20_GuardReleased ==
    /\ isGitOperationInProgress => T.pc \in GuardedLabels
    /\ (T.pc = "idle" /\ T.op \in {"cloneRepository", "pullLatestChanges", "saveAndPush"})
            => ~isGitOperationInProgress

\* C21: while a guarded sequence is between its acquire and its release,
\* isGitOperationInProgress is true, also when two of them overlap
C21_FlagCoversMutation ==
    (\E p \in Procs : task[p].pc \in GuardedLabels) => isGitOperationInProgress

\* the spellings of github.com<pa>: with or without https://, with or
\* without .git
Spellings(pa) ==
    {sc \o <<"github.com">> \o pa \o su : sc \in {<<>>, <<"https://">>}, su \in Suffixes}

\* the case of C22: a token was stored under
\* https://github.com/owner/repo.git
C22_Witness ==
    /\ Finished("setRepositoryToken")
    /\ T.url = <<"https://", "github.com", "/", "owner", "/", "repo", ".git">>

\* C22: a token stored under one spelling of github.com/owner/repo is what
\* getRepositoryToken returns for every spelling of it, and a lookup under
\* one spelling returns what a lookup under any other returns
C22_TokenRoundTrip ==
    \A pa \in Paths :
        /\ (Finished("setRepositoryToken") /\ T.url \in Spellings(pa)) =>
                \A b \in Spellings(pa) : TokenFor(settings, b) = T.token
        /\ (Finished("getRepositoryToken") /\ T.url \in Spellings(pa)) =>
                \A b \in Spellings(pa) : TokenFor(settings, b) = T.ret

\* C23: when the commit of Save as Draft fails, isReadOnlyMode, currentBranch
\* and the checked-out branch are as they were when the button was pressed, no
\* read-only transition is started (no checkout is issued) and the failure
\* notice is shown
C23_CommitFailed ==
    /\ Finished("saveAsDraft")
    /\ \E i \in 1..Len(T.cmds) :
          T.cmds[i][1] \in {"add .", "commit -m"} /\ T.cmds[i][3] = "fail"

C23_Witness == C23_CommitFailed /\ LastCommand[1] = "commit -m"

C23_DraftFailureKeepsState ==
    C23_CommitFailed =>
        /\ settings.isReadOnlyMode = T.pre.isReadOnlyMode
        /\ settings.currentBranch = T.pre.currentBranch
        /\ actualBranch = T.preActual
        /\ ~HasCommand(T.cmds, "checkout")
        /\ "draftFailed" \in T.notices
        /\ "draftSaved" \notin T.notices


MutatingCommands == {"checkout", "checkout -b", "branch -d", "add .", "commit -m",
                     "pull origin", "push origin", "clone", "PUT merge"}

\* a transition was suspended on a modal and the modal was cancelled or closed
C24_Dismissed ==
    /\ T.pc = "idle"
    /\ \/ /\ T.op = "enableEditMode" /\ T.arg = NoBranch
          /\ T.modal \in {"cancelSelection", "closeSelection"}
          /\ task["onOpen"].pc = "idle"
       \/ /\ T.op = "enableReadOnlyModeWithBranch" /\ "saveChangesModal" \in T.notices
          /\ T.modal \in {"cancelSave", "closeSave"}

C24_NoGitMutation ==
    /\ actualBranch = T.preActual
    /\ \A i \in 1..Len(T.cmds) : T.cmds[i][1] \notin MutatingCommands

\* C24 as stated: after the dismissal no setting differs from its value when
\* the transition was requested
C24_AsStated ==
    C24_Dismissed => (settings = T.pre /\ C24_NoGitMutation)

\* the branch selection was dismissed after its refresh rewrote availableBranches
C24_Witness ==
    /\ C24_Dismissed /\ T.op = "enableEditMode"
    /\ settings.availableBranches # T.pre.availableBranches

\* C24: after a suspended transition's modal is cancelled or closed, every
\* setting other than availableBranches has the value it had when the
\* transition was requested and no branch- or history-changing git command was
\* issued, for the Cancel button and for closing alike
C24_DismissalKeepsState ==
    C24_Dismissed =>
        /\ [settings EXCEPT !.availableBranches = <<>>] =
               [T.pre EXCEPT !.availableBranches = <<>>]
        /\ settings.availableBranches \in
               {T.pre.availableBranches, BranchList(gitBranches)}
        /\ C24_NoGitMutation

CommandAt(i, c, r) == i \in 1..Len(T.cmds) /\ T.cmds[i][1] = c /\ T.cmds[i][3] = r

\* Save & Push pushed a branch that already was on the remote and went on
C25_Witness ==
    /\ Finished("saveAndPush")
    /\ \E i \in 1..Len(T.cmds) : CommandAt(i, "ls-remote", "ok")
    /\ \E i \in 1..Len(T.cmds) : CommandAt(i, "push origin", "ok")

\* C25: once the push of Save & Push has succeeded, forceEnableReadOnlyMode has
\* been started (its checkout of the main branch is the next command), for a
\* branch that was new on the remote and for one that was not, with the pull
\* request dialog scheduled or not
C25_ForceAfterPush ==
    T.op = "saveAndPush" =>
        \A i \in 1..Len(T.cmds) :
            CommandAt(i, "push origin", "ok") =>
                /\ i < Len(T.cmds)
                /\ T.cmds[i + 1][1] = "checkout" /\ T.cmds[i + 1][2] = T.pre.mainBranch

\* Save & Push pushed a branch that was absent from the remote
C26_Witness ==
    /\ Finished("saveAndPush")
    /\ "createPRModal" \in T.notices

\* C26: in Save & Push the remote-existence query comes after the commit and
\* before the push, and the pull request dialog is scheduled only when that
\* query reported the branch absent and the push succeeded
C26_QueryBetweenCommitAndPush ==
    T.op = "saveAndPush" =>
        /\ \A i \in 1..Len(T.cmds) :
              T.cmds[i][1] = "ls-remote" =>
                  /\ \E j \in 1..(i - 1) : CommandAt(j, "commit -m", "ok")
                  /\ \A j \in 1..(i - 1) : T.cmds[j][1] \notin {"fetch origin", "push origin"}
        /\ \A i \in 1..Len(T.cmds) :
              T.cmds[i][1] \in {"fetch origin", "push origin"} =>
                  \E j \in 1..(i - 1) : T.cmds[j][1] = "ls-remote"
        /\ "createPRModal" \in T.notices =>
              /\ \E i \in 1..Len(T.cmds) : CommandAt(i, "ls-remote", "fail")
              /\ \E i \in 1..Len(T.cmds) : CommandAt(i, "push origin", "ok")

Occurrences(seq, x) == Cardinality({i \in 1..Len(seq) : seq[i] = x})

\* createNewBranch created a second working branch
C27_Witness ==
    /\ Finished("createNewBranch")
    /\ T.cmds = <<(<<"checkout -b", T.arg, "ok">>)>>
    /\ Len(T.pre.availableBranches) >= 2

\* C27: a createNewBranch whose `git checkout -b` fails leaves every setting,
\* availableBranches included, as it was and shows the error; one whose
\* `git checkout -b` succeeds leaves the name in availableBranches exactly once
C27_CreateBranchList ==
    Finished("createNewBranch") =>
        /\ T.cmds = <<(<<"checkout -b", T.arg, "fail">>)>> =>
              /\ settings = T.pre
              /\ saved = T.preSaved
              /\ "createFailed" \in T.notices
              /\ T.ret = "false"
        /\ T.cmds = <<(<<"checkout -b", T.arg, "ok">>)>> =>
              /\ Occurrences(settings.availableBranches, T.arg) = 1
              /\ T.ret = "true"

\* C28: a pull request creation that reached the remote call leaves the
\* settings, the credential mapping, the saved settings and the checked-out
\* branch as they were when the button was pressed, whether the call succeeded
\* or failed
C28_CreatePRMutatesNothing ==
    (Finished("createPullRequest") /\ HasCommand(T.cmds, "POST pulls")) =>
        /\ settings = T.pre
        /\ saved = T.preSaved
        /\ actualBranch = T.preActual

\* the manager shows its list and no confirmation is open
C29_Rendered ==
    /\ prManager.open /\ task["onOpen"].pc = "idle" /\ UiIdle
    /\ prManager.mergeFor = "none" /\ prManager.closeFor = "none"

\* C29 as stated: merge and close are offered for every listed pull request,
\* whatever its mergeable value
C29_AsStated ==
    C29_Rendered =>
        \A n \in DOMAIN prManager.pullRequests :
            {"merge", "close"} \subseteq Buttons(prManager.pullRequests[n])

\* a pull request listed with conflicts was closed through the manager
C29_Witness ==
    /\ Finished("closePullRequest")
    /\ T.mergeable = "false"
    /\ T.cmds = <<(<<"PATCH pull", T.arg, "ok">>)>>

\* C29: close is offered for every listed pull request whatever its mergeable
\* value; merge is offered exactly when mergeable is not false, so a merge is
\* requested only for a pull request listed as mergeable or unknown; the
\* status text is the only other use of the value
C29_MergeableGatesMergeOnly ==
    /\ C29_Rendered =>
          \A n \in DOMAIN prManager.pullRequests :
              LET m == prManager.pullRequests[n] IN
              /\ "close" \in Buttons(m)
              /\ "merge" \in Buttons(m) <=> m \in {"true", "null"}
              /\ getPRStatusText(m) = "Conflicts" <=> m = "false"
    /\ (T.op = "mergePullRequest" /\ T.arg \in PRNumbers) => T.mergeable # "false"

\* the check reported updates after a transition of the user, still running,
\* had changed a setting under it
C30_Witness ==
    /\ task["timer"].op = "checkRemoteUpdates" /\ task["timer"].pc = "idle"
    /\ "updatesAvailable" \in task["timer"].notices
    /\ task["ui"].pc # "idle"
    /\ settings # task["timer"].pre

\* C30: every step of the detached remote-update check leaves the settings,
\* the saved settings, the checked-out branch, the local branches and
\* isGitOperationInProgress as they are, under every interleaving with a
\* running transition; all it logs are a fetch and a rev-list, all it shows is
\* the notice about available updates
C30_CheckOnlyNotifies ==
    [][task'["timer"] # task["timer"] =>
          /\ UNCHANGED <<settings, saved, actualBranch, gitBranches, dirty,
                         isGitOperationInProgress, selectionModalOpen, saveModal>>
          /\ \A q \in Procs \ {"timer"} : task'[q] = task[q]
          /\ task'["timer"].notices \subseteq {"updatesAvailable"}
          /\ \A i \in 1..Len(task'["timer"].cmds) :
                task'["timer"].cmds[i][1] \in {"fetch origin", "rev-list --count"}]_vars

\* channel p has a branch- or history-changing git command in flight
MutationInFlight(p) ==
    /\ Len(task[p].cmds) >= 1
    /\ task[p].cmds[Len(task[p].cmds)][1] \in MutatingCommands
    /\ task[p].cmds[Len(task[p].cmds)][3] = "pending"

\* C31: at most one git-mutating sequence is in flight: while one channel is
\* between the start and the end of its sequence, no other channel has a
\* git-mutating command pending
C31_OneSequenceInFlight ==
    \A p, q \in Procs :
        (p # q /\ task[p].pc # "idle" /\ MutationInFlight(p)) => ~MutationInFlight(q)

\* C32: whenever no operation is in flight, the record last written by
\* saveSettings equals the settings in memory
C32_SavedEqualsSettings == Idle => saved = settings



----------------------------------------------------------------------------
(* The command Toggle Read-Only Mode, started while a handler is running *)

\* main.ts:82-90 the command callback in edit mode: it calls
\* enableReadOnlyModeWithBranch() and does not wait for a running handler
toggleCommand ==
    /\ pluginLoaded /\ task["cmd"].pc = "idle"
    /\ ~settings.isReadOnlyMode
    /\ LET W == Start(World, "cmd", "enableReadOnlyModeWithBranch", NoBranch) IN
       Commit(IF settings.isRepositoryConnected /\ ~settings.isReadOnlyMode
              THEN statusEnter(Call(W, "cmd", "erwb_cfu"), "cmd")
              ELSE forceEnter(Call(W, "cmd", "erwb_fe"), "cmd"))

toggleCommand_status ==
    \E ok \in BOOLEAN :
        /\ Settling("cmd", "cfu_status", ok)
        /\ Commit(statusRead(Settle(World, "cmd", ok), "cmd", ok))

toggleCommand_checkout ==
    \E ok \in BOOLEAN :
        /\ Settling("cmd", "fe_checkout", ok)
        /\ Commit(forceCheckout(Settle(World, "cmd", ok), "cmd", ok))

toggleCommand_read ==
    \E ok \in BOOLEAN :
        /\ Settling("cmd", "val_read", ok)
        /\ Commit(validateRead(Settle(World, "cmd", ok), "cmd", ok))

toggleCommand_enforce ==
    \E ok \in BOOLEAN :
        /\ Settling("cmd", "val_checkout", ok)
        /\ Commit(validateCheckout(Settle(World, "cmd", ok), "cmd", ok))

\* a branch is chosen for editing and the toggle command is run before the
\* handler of the choice has finished
NextToggle ==
    \/ createNewBranch
    \/ createNewBranch_checkout
    \/ enableEditMode
    \/ enableEditMode_checkout
    \/ validate_read
    \/ validate_checkout
    \/ toggleCommand
    \/ toggleCommand_status
    \/ toggleCommand_checkout
    \/ toggleCommand_read
    \/ toggleCommand_enforce

SpecToggle == Init /\ [][NextToggle]_vars

\* the call of validateAndEnforceBranchRules on channel p returns true in
\* this step: its enforcing checkout succeeded, or its read succeeded and
\* neither rule applied
ValidatorReturnsTrue(p) ==
    LET n == Len(task[p].cmds) IN
    /\ n >= 1 /\ task[p].cmds[n][3] = "pending"
    /\ task'[p].cmds[n][3] = "ok"
    /\ \/ task[p].pc = "val_checkout"
       \/ /\ task[p].pc = "val_read"
          /\ ValidatorRule(CorrectMainBranch(settings, actualBranch), actualBranch) = "sync"

\* C33: whenever validateAndEnforceBranchRules returns true with a
\* repository connected, the stored currentBranch is the branch that is
\* checked out and isReadOnlyMode holds exactly when that branch is mainBranch
C33_ValidatorTrueIsConsistent ==
    [][\A p \in Procs :
        (ValidatorReturnsTrue(p) /\ Connected) =>
            /\ settings'.currentBranch = actualBranch'
            /\ settings'.isReadOnlyMode <=> (actualBranch' = settings'.mainBranch)]_vars

----------------------------------------------------------------------------
(* The listener of vault.on('create') and deleteNewFile *)

\* what git knows of the created file
FileKinds == {"untracked", "ignored", "tracked"}

\* main.ts:323-337 entry, up to `git check-ignore <path>`
deleteEnter(W, p) == Await(W, p, "check-ignore", NoBranch, "dnf_ignore")

\* main.ts:336-346 exit status 0: the file is ignored and is kept
deleteIgnore(W, p, ok) ==
    IF ok THEN Return(W, p, "none")
    ELSE Await(W, p, "ls-files --error-unmatch", NoBranch, "dnf_tracked")

\* main.ts:345-354 exit status 0: the file is tracked and is kept
deleteTracked(W, p, ok) ==
    IF ok THEN Return(W, p, "none")
    ELSE Await(W, p, "vault.delete", NoBranch, "dnf_delete")

\* main.ts:354-359 after vault.delete(file)
deleteDone(W, p, ok) ==
    Return(Note(W, p, IF ok THEN "fileDeleted" ELSE "deleteFailed"), p, "none")

\* main.ts:126-130 a file of kind k appears in the vault
vaultCreate ==
    \E k \in FileKinds :
        /\ pluginLoaded /\ task["watch"].pc = "idle"
        /\ LET W == Start(World, "watch", "deleteNewFile", k) IN
           Commit(IF settings.isReadOnlyMode /\ ~isGitOperationInProgress
                  THEN deleteEnter(W, "watch")
                  ELSE Return(W, "watch", "none"))

\* git check-ignore exits with 0 exactly for an ignored path
deleteNewFile_ignore ==
    \E ok \in BOOLEAN :
        /\ task["watch"].pc = "dnf_ignore"
        /\ ok <=> (task["watch"].arg = "ignored" /\ gitBranches # {})
        /\ Commit(deleteIgnore(Settle(World, "watch", ok), "watch", ok))

\* git ls-files --error-unmatch exits with 0 exactly for a tracked path
deleteNewFile_tracked ==
    \E ok \in BOOLEAN :
        /\ task["watch"].pc = "dnf_tracked"
        /\ ok <=> (task["watch"].arg = "tracked" /\ gitBranches # {})
        /\ Commit(deleteTracked(Settle(World, "watch", ok), "watch", ok))

deleteNewFile_delete ==
    \E ok \in BOOLEAN :
        /\ task["watch"].pc = "dnf_delete"
        /\ Commit(deleteDone(Settle(World, "watch", ok), "watch", ok))

\* files appear while the user changes mode and pulls
NextWatch ==
    \/ vaultCreate
    \/ deleteNewFile_ignore
    \/ deleteNewFile_tracked
    \/ deleteNewFile_delete
    \/ createNewBranch
    \/ createNewBranch_checkout
    \/ enableEditMode
    \/ enableEditMode_checkout
    \/ validate_read
    \/ pullLatestChanges
    \/ pullLatestChanges_checkout
    \/ pullLatestChanges_pull

SpecWatch == Init /\ [][NextWatch]_vars

\* the listener hands the created file to deleteNewFile in this step
StartsDeleteNewFile == task["watch"].pc = "idle" /\ task'["watch"].pc = "dnf_ignore"

\* deleteNewFile calls vault.delete for the created file in this step
DeletesFile == task["watch"].pc = "dnf_tracked" /\ task'["watch"].pc = "dnf_delete"

\* a sequence that holds isGitOperationInProgress is between its steps
GuardedInFlight == \E p \in Procs : task[p].pc \in GuardedLabels

\* C34: the listener starts deleteNewFile only when, at the create event,
\* isReadOnlyMode is true and isGitOperationInProgress is false; a file is
\* deleted only if it is neither ignored nor tracked, and never in edit mode
\* or while a guarded git sequence is in flight
C34_DeletesOnlyInReadOnly ==
    [][/\ StartsDeleteNewFile =>
            settings.isReadOnlyMode /\ ~isGitOperationInProgress
       /\ DeletesFile =>
            /\ task["watch"].arg = "untracked"
            /\ settings.isReadOnlyMode
            /\ ~GuardedInFlight]_vars

\* the case of C35: enableEditMode(b) has checked b out and recorded it as
\* the last working branch
C35_Witness ==
    /\ Finished("enableEditMode") /\ Connected
    /\ T.arg # NoBranch
    /\ HasCommand(T.cmds, "checkout") /\ T.cmds[1][3] = "ok"
    /\ T.pre.lastWorkingBranch # T.arg
    /\ settings.lastWorkingBranch = T.arg

\* the checkout of enableEditMode on channel p succeeds in this step
EditCheckoutSucceeds(p) ==
    LET n == Len(task[p].cmds) IN
    /\ task[p].op = "enableEditMode" /\ task[p].pc = "eem_checkout"
    /\ task'[p].cmds[n][3] = "ok"

\* C35: with a repository connected, lastWorkingBranch is empty or a branch
\* other than mainBranch; it changes only in the step in which the checkout
\* of enableEditMode succeeds, and becomes the branch just checked out
C35_LastWorkingBranch ==
    /\ [](Connected =>
            \/ settings.lastWorkingBranch = ""
            \/ settings.lastWorkingBranch # settings.mainBranch)
    /\ [][settings'.lastWorkingBranch # settings.lastWorkingBranch =>
            \E p \in Procs :
                /\ EditCheckoutSucceeds(p)
                /\ settings'.lastWorkingBranch = task[p].arg
                /\ settings'.lastWorkingBranch = PendingArg(World, p)
                /\ settings'.lastWorkingBranch = actualBranch']_vars
============================================================================
